---- MODULE Spec2Model ----
(***************************************************************************)
(* Intel 8080 core of n800: the console (register map, data bus, address   *)
(* bus, RAM, halted flag), its micro-sequences, the decoder and the run    *)
(* loop, translated from src/src/processor.rs, src/src/memory.rs,          *)
(* src/src/register.rs and src/src/alu.rs.                                 *)
(*                                                                         *)
(* A console is a record s with fields                                     *)
(*   regs         the lazily populated HashMap<I8080RegisterCode, ..>: a   *)
(*                function whose DOMAIN is the set of inserted codes       *)
(*   ram          the RamB8A16 array (see RamB8A16 below)                  *)
(*   data_bus, address_bus   the two shared cells                          *)
(*   halted       the halted flag                                          *)
(*   fault        "none", or the panic that aborted the call:              *)
(*                "bounds" (array index out of range), "decode" (an        *)
(*                unreachable!/panic! arm), "io" (stdin read failed)       *)
(* Every method of I8080Console is an operator from console to console.    *)
(* A panic unwinds the call, so every primitive is the identity on a       *)
(* console whose fault is set.                                             *)
(*                                                                         *)
(* processor.rs calls Register::load through &mut self and drops nothing   *)
(* (load_from_data, flag_set): its register cells are mutated in place,    *)
(* as its own tests require; the cell operations are modelled that way.    *)
(***************************************************************************)
EXTENDS Integers, Sequences, FiniteSets, TLC

VARIABLES
    regs,         \* I8080Console.regs
    ram,          \* I8080Console.memory
    data_bus,     \* I8080Console.data_bus
    address_bus,  \* I8080Console.address_bus
    halted,       \* I8080Console.halted
    fault,        \* the panic that ended the last call, or "none"
    image,        \* the name of the memory image the console was built with
    runpc,        \* where run() stands: "idle", "loop", "returned", "panicked"
    turns,        \* the steps run() has taken
    trail,        \* the calls made so far, each with the console it found
    args,         \* the arguments a free function or value method is given
    retval        \* what that function returned, tagged with its name

vars ==
    <<regs, ram, data_bus, address_bus, halted, fault, image, runpc, turns, trail,
      args, retval>>

----------------------------------------------------------------------------
(* Bytes, words and bit primitives (u8 / u16 arithmetic)                   *)

Byte == 0..255

Word == 0..65535

Bit(x, i) == (x \div (2 ^ i)) % 2

\* u8 & u8
BitAnd(a, b) ==
    LET F[i \in 0..8] ==
            IF i = 8 THEN 0 ELSE (Bit(a, i) * Bit(b, i)) * (2 ^ i) + F[i + 1]
    IN  F[0]

\* u8 | u8
BitOr(a, b) ==
    LET F[i \in 0..8] ==
            IF i = 8 THEN 0
            ELSE (IF Bit(a, i) + Bit(b, i) > 0 THEN 2 ^ i ELSE 0) + F[i + 1]
    IN  F[0]

\* u8 ^ u8
BitXor(a, b) ==
    LET F[i \in 0..8] ==
            IF i = 8 THEN 0
            ELSE (IF Bit(a, i) # Bit(b, i) THEN 2 ^ i ELSE 0) + F[i + 1]
    IN  F[0]

\* !u8
BitNot(a) == 255 - a

\* u8::reverse_bits
reverse_bits(a) ==
    LET F[i \in 0..8] ==
            IF i = 8 THEN 0 ELSE Bit(a, i) * (2 ^ (7 - i)) + F[i + 1]
    IN  F[0]

\* u8::count_ones
count_ones(a) ==
    LET F[i \in 0..8] == IF i = 8 THEN 0 ELSE Bit(a, i) + F[i + 1]
    IN  F[0]

\* u16::from_be_bytes([h, l])
from_be_bytes(h, l) == h * 256 + l

\* u16::to_be_bytes: <<high, low>>
to_be_bytes(w) == <<w \div 256, w % 256>>

----------------------------------------------------------------------------
(* Memory: RamB8A16                                                        *)

\* The length of the ram array, u16::MAX as usize.
RamSize == 65535

\* The array is kept as a base image plus the cells written since:
\*   base  "zero" ([0; RamSize]) or "ramp" (cell i holds i mod 256, the image
\*         the tests flash), cells  a function from the written indices.
RamDefault == [base |-> "zero", cells |-> <<>>]

\* memory.flash(&(0..=255u8).cycle().take(65535).collect(), 0) on a default ram
RamRamp == [base |-> "ramp", cells |-> <<>>]

\* self.ram[i] for an index inside the array
RamCell(r, i) ==
    IF i \in DOMAIN r.cells THEN r.cells[i]
    ELSE IF r.base = "ramp" THEN i % 256 ELSE 0

\* self.ram[i] = x for an index inside the array
RamPut(r, i, x) ==
    [r EXCEPT !.cells = [j \in (DOMAIN r.cells) \cup {i} |->
                            IF j = i THEN x ELSE r.cells[j]]]

\* RamB8A16::flash: data is a sequence of bytes
RECURSIVE flash_from(_, _, _, _)
flash_from(r, data, displacement, k) ==
    IF k > Len(data) THEN r
    ELSE flash_from(RamPut(r, (displacement + (k - 1)) % RamSize, data[k]),
                    data, displacement, k + 1)

flash(r, data, displacement) == flash_from(r, data, displacement, 1)

\* Two rams hold the same bytes
RamEq(r1, r2) ==
    /\ r1.base = r2.base
    /\ \A i \in (DOMAIN r1.cells) \cup (DOMAIN r2.cells) :
          RamCell(r1, i) = RamCell(r2, i)

----------------------------------------------------------------------------
(* Register codes                                                          *)

I8080RegisterCode ==
    {"Acc", "Flag", "B", "C", "D", "E", "H", "L", "Tmp", "Inst",
     "PcH", "PcL", "SpH", "SpL", "W", "Z"}

I8080RegisterCode16 == {"PSW", "BC", "DE", "HL", "SP", "PC", "WZ"}

\* I8080RegisterCode16::split: <<high, low>>
split(code) ==
    CASE code = "PSW" -> <<"Acc", "Flag">>
      [] code = "BC" -> <<"B", "C">>
      [] code = "DE" -> <<"D", "E">>
      [] code = "HL" -> <<"H", "L">>
      [] code = "WZ" -> <<"W", "Z">>
      [] code = "SP" -> <<"SpH", "SpL">>
      [] code = "PC" -> <<"PcH", "PcL">>

StatusFlag == {"Zero", "Sign", "Parity", "Carry", "AuxiliaryCarry"}

----------------------------------------------------------------------------
(* The console: register map, buses, memory interface                      *)

\* I8080Console::default()
ConsoleDefault ==
    [regs |-> <<>>, ram |-> RamDefault, data_bus |-> 0, address_bus |-> 0,
     halted |-> FALSE, fault |-> "none"]

Ok(s) == s.fault = "none"

panic(s, why) == IF Ok(s) THEN [s EXCEPT !.fault = why] ELSE s

\* regs.insert(code, cell holding v)
RegInsert(rs, code, v) ==
    [c \in (DOMAIN rs) \cup {code} |-> IF c = code THEN v ELSE rs[c]]

\* regs.remove(&code)
RegRemove(rs, code) == [c \in (DOMAIN rs) \ {code} |-> rs[c]]

\* I8080Console::code_reg_as_u8: an absent register reads 0
code_reg_as_u8(s, code) == IF code \in DOMAIN s.regs THEN s.regs[code] ELSE 0

\* I8080Console::code_reg16_as_u16
code_reg16_as_u16(s, code) ==
    from_be_bytes(code_reg_as_u8(s, split(code)[1]),
                  code_reg_as_u8(s, split(code)[2]))

\* I8080Console::code_reg_mut: regs.entry(code).or_insert_with(default)
code_reg_mut(s, code) ==
    IF ~Ok(s) \/ code \in DOMAIN s.regs THEN s
    ELSE [s EXCEPT !.regs = RegInsert(s.regs, code, 0)]

\* code_reg_mut(code).reg.load(v)
reg_load(s, code, v) ==
    IF ~Ok(s) THEN s ELSE [s EXCEPT !.regs = RegInsert(s.regs, code, v)]

\* data_bus.set(v)
data_bus_set(s, v) == IF ~Ok(s) THEN s ELSE [s EXCEPT !.data_bus = v]

\* code_reg_mut(code).read_to_data(): bus.set(reg.read())
read_to_data(s, code) ==
    data_bus_set(code_reg_mut(s, code), code_reg_as_u8(s, code))

\* code_reg_mut(code).load_from_data(): reg.load(bus.get())
load_from_data(s, code) == reg_load(s, code, s.data_bus)

\* I8080Console::code_reg16_read_to_address
code_reg16_read_to_address(s, code) ==
    IF ~Ok(s) THEN s ELSE [s EXCEPT !.address_bus = code_reg16_as_u16(s, code)]

\* Memory::read on RamB8A16: self.ram[address as usize]; the index panics
\* (ok = FALSE) when it is not below the array length
read(r, address) ==
    [ok |-> address < RamSize,
     data |-> IF address < RamSize THEN RamCell(r, address) ELSE 0]

\* Memory::write on RamB8A16: self.ram[address as usize] = data
write(r, address, data) ==
    [ok |-> address < RamSize,
     ram |-> IF address < RamSize THEN RamPut(r, address, data) ELSE r]

\* ProcMemory::store: memory.write(address_bus.get(), data_bus.get())
store(s) ==
    IF ~Ok(s) THEN s
    ELSE LET w == write(s.ram, s.address_bus, s.data_bus)
         IN  IF w.ok THEN [s EXCEPT !.ram = w.ram] ELSE panic(s, "bounds")

\* ProcMemory::fetch: data_bus.set(memory.read(address_bus.get()))
fetch(s) ==
    IF ~Ok(s) THEN s
    ELSE LET r == read(s.ram, s.address_bus)
         IN  IF r.ok THEN [s EXCEPT !.data_bus = r.data] ELSE panic(s, "bounds")

\* Register8Pair::increment / decrement: wrapping +1 / -1 on the pair
pair_increment(h, l) == to_be_bytes((from_be_bytes(h, l) + 1) % 65536)

pair_decrement(h, l) == to_be_bytes((from_be_bytes(h, l) + 65535) % 65536)

\* reg16_increment that increments only a pair whose cells are both in the
\* map
reg16_increment_present_only(s, dst) ==
    IF ~Ok(s) \/ ~({split(dst)[1], split(dst)[2]} \subseteq DOMAIN s.regs)
    THEN s
    ELSE LET inc == pair_increment(s.regs[split(dst)[1]], s.regs[split(dst)[2]])
         IN  [s EXCEPT !.regs = RegInsert(RegInsert(s.regs, split(dst)[1], inc[1]),
                                          split(dst)[2], inc[2])]

\* I8080Console::reg16_increment: both cells are removed, incremented as a
\* pair and inserted again
reg16_increment(s, dst) ==
    IF ~Ok(s) THEN s
    ELSE LET h == code_reg_as_u8(s, split(dst)[1])
             l == code_reg_as_u8(s, split(dst)[2])
             removed == RegRemove(RegRemove(s.regs, split(dst)[1]), split(dst)[2])
             inc == pair_increment(h, l)
         IN  [s EXCEPT !.regs = RegInsert(RegInsert(removed, split(dst)[1], inc[1]),
                                          split(dst)[2], inc[2])]

\* I8080Console::reg16_decrement
reg16_decrement(s, dst) ==
    IF ~Ok(s) THEN s
    ELSE LET h == code_reg_as_u8(s, split(dst)[1])
             l == code_reg_as_u8(s, split(dst)[2])
             removed == RegRemove(RegRemove(s.regs, split(dst)[1]), split(dst)[2])
             dec == pair_decrement(h, l)
         IN  [s EXCEPT !.regs = RegInsert(RegInsert(removed, split(dst)[1], dec[1]),
                                          split(dst)[2], dec[2])]

\* I8080Console::load_reg16_from_reg16: high cell, then low cell, over the bus
load_reg16_from_reg16(s, dst, src) ==
    LET s1 == read_to_data(s, split(src)[1])
        s2 == load_from_data(s1, split(dst)[1])
        s3 == read_to_data(s2, split(src)[2])
    IN  load_from_data(s3, split(dst)[2])

\* I8080Console::store_hl
store_hl(s) == store(code_reg16_read_to_address(s, "HL"))

\* I8080Console::fetch_hl
fetch_hl(s) == fetch(code_reg16_read_to_address(s, "HL"))

\* I8080Console::fetch_instruction
fetch_instruction(s) ==
    reg16_increment(fetch(code_reg16_read_to_address(s, "PC")), "PC")

\* fetch_operand_to_wz taking the operand high byte first
fetch_operand_to_wz_high_first(s) ==
    LET s1 == load_from_data(fetch_instruction(s), "W")
    IN  load_from_data(fetch_instruction(s1), "Z")

\* I8080Console::fetch_operand_to_wz: first operand byte to Z, second to W
fetch_operand_to_wz(s) ==
    LET s1 == load_from_data(fetch_instruction(s), "Z")
    IN  load_from_data(fetch_instruction(s1), "W")

----------------------------------------------------------------------------
(* ALU family (src/src/alu.rs): op(lhs, rhs) = <<result, flag set>>        *)

\* set_by_result taking only bytes above 0x80 as signed (the fault C17 is
\* checked against)
set_by_result_sign_above(result) ==
    (IF result = 0 THEN {"Zero"} ELSE {})
    \cup (IF result > 128 THEN {"Sign"} ELSE {})
    \cup (IF count_ones(result) % 2 = 0 THEN {"Parity"} ELSE {})

\* StatusFlag::set_by_result
set_by_result(result) ==
    (IF result = 0 THEN {"Zero"} ELSE {})
    \cup (IF result >= 128 THEN {"Sign"} ELSE {})
    \cup (IF count_ones(result) % 2 = 0 THEN {"Parity"} ELSE {})

\* EnumSet ^= flag
FlagToggle(status, f) == IF f \in status THEN status \ {f} ELSE status \cup {f}

\* primary_adder without the half-carry out of bit 3 (the fault C11 is
\* checked against)
primary_adder_without_auxiliary(cin, lhs, rhs) ==
    LET rhs1 == IF cin THEN (rhs + 1) % 256 ELSE rhs
        res == (lhs + rhs1) % 256
    IN  <<res,
          set_by_result(res)
          \cup (IF (cin /\ rhs + 1 > 255) \/ lhs + rhs1 > 255 THEN {"Carry"}
                ELSE {})>>

\* bit8::primary_adder
primary_adder(cin, lhs, rhs) ==
    LET auxiliary_carry ==
            IF cin THEN (lhs % 16) + (rhs % 16) + 1 >= 16
            ELSE (lhs % 16) + (rhs % 16) >= 16
        rhs1 == IF cin THEN (rhs + 1) % 256 ELSE rhs
        carry_ovf == cin /\ rhs + 1 > 255
        res == (lhs + rhs1) % 256
        ovf == lhs + rhs1 > 255
    IN  <<res,
          set_by_result(res)
          \cup (IF carry_ovf \/ ovf THEN {"Carry"} ELSE {})
          \cup (IF auxiliary_carry THEN {"AuxiliaryCarry"} ELSE {})>>

\* adder() built with the carry-in set (the fault C15 is checked against)
adder_with_carry_in == [kind |-> "Adder", neg |-> FALSE, cin |-> TRUE]

\* subber() built without the carry-in that completes the two's complement
\* (the fault C16 is checked against)
subber_without_carry_in == [kind |-> "Adder", neg |-> TRUE, cin |-> FALSE]

\* carried_adder() built without its carry-in
carried_adder_without_carry_in ==
    [kind |-> "Adder", neg |-> FALSE, cin |-> FALSE]

\* borrowed_subber() built with the carry-in of subber()
borrowed_subber_with_carry_in == [kind |-> "Adder", neg |-> TRUE, cin |-> TRUE]

\* The ALU values: Adder::adder / subber / carried_adder / borrowed_subber
adder == [kind |-> "Adder", neg |-> FALSE, cin |-> FALSE]

subber == [kind |-> "Adder", neg |-> TRUE, cin |-> TRUE]

carried_adder == [kind |-> "Adder", neg |-> FALSE, cin |-> TRUE]

borrowed_subber == [kind |-> "Adder", neg |-> TRUE, cin |-> FALSE]

\* Adder::op that leaves the carries of the complemented sum as they are
Adder_op_without_toggle(alu, lhs, rhs) ==
    primary_adder(alu.cin, lhs, IF alu.neg THEN BitNot(rhs) ELSE rhs)

\* impl ALU for Adder
Adder_op(alu, lhs, rhs) ==
    LET rhs1 == IF alu.neg THEN BitNot(rhs) ELSE rhs
        r == primary_adder(alu.cin, lhs, rhs1)
    IN  IF alu.neg
        THEN <<r[1], FlagToggle(FlagToggle(r[2], "Carry"), "AuxiliaryCarry")>>
        ELSE r

\* impl ALU for IncDecOperator
IncDecOperator_op(alu, lhs, rhs) ==
    LET res == IF alu.kind = "Increase" THEN (rhs + 1) % 256
               ELSE (rhs + 255) % 256
        carry == IF alu.kind = "Increase" THEN rhs = 255 ELSE rhs = 0
    IN  <<res, set_by_result(res) \cup (IF carry THEN {"Carry"} ELSE {})>>

\* impl ALU for LogicalOperator
LogicalOperator_op(alu, lhs, rhs) ==
    LET res == CASE alu.kind = "And" -> BitAnd(lhs, rhs)
                 [] alu.kind = "Or" -> BitOr(lhs, rhs)
                 [] alu.kind = "Not" -> BitNot(rhs)
                 [] alu.kind = "Xor" -> BitXor(lhs, rhs)
    IN  <<res, set_by_result(res)>>

\* Rotator::rotate_left / rotate_right / through_carry / carried
rotate_left ==
    [kind |-> "Rotator", carry |-> FALSE, through_carry |-> FALSE,
     rotate_right |-> FALSE]

rotate_right ==
    [kind |-> "Rotator", carry |-> FALSE, through_carry |-> FALSE,
     rotate_right |-> TRUE]

through_carry(alu) == [alu EXCEPT !.through_carry = TRUE]

carried(alu, carry) == [alu EXCEPT !.carry = carry]

\* Rotator::op inserting the bit rotated out even through carry (the fault
\* C20 is checked against)
Rotator_op_ignoring_carry_in(alu, lhs, rhs) ==
    LET rhs1 == IF alu.rotate_right THEN reverse_bits(rhs) ELSE rhs
        carry == rhs1 >= 128
        res2 == BitOr((rhs1 * 2) % 256, IF carry THEN 1 ELSE 0)
        res == IF alu.rotate_right THEN reverse_bits(res2) ELSE res2
    IN  <<res, IF carry THEN {"Carry"} ELSE {}>>

\* impl ALU for Rotator
Rotator_op(alu, lhs, rhs) ==
    LET rhs1 == IF alu.rotate_right THEN reverse_bits(rhs) ELSE rhs
        carry == rhs1 >= 128
        res1 == (rhs1 * 2) % 256
        res2 == IF alu.through_carry
                THEN BitOr(res1, IF alu.carry THEN 1 ELSE 0)
                ELSE BitOr(res1, IF carry THEN 1 ELSE 0)
        res == IF alu.rotate_right THEN reverse_bits(res2) ELSE res2
    IN  <<res, IF carry THEN {"Carry"} ELSE {}>>

\* DecimalAdjuster::from_status
from_status(status) ==
    [kind |-> "DecimalAdjuster", carry |-> "Carry" \in status,
     auxiliary |-> "AuxiliaryCarry" \in status]

\* DecimalAdjuster::op ignoring the half-carry it was built with (the fault
\* C14 is checked against)
DecimalAdjuster_op_without_auxiliary(alu, lhs, rhs) ==
    LET lsb0 == BitAnd(rhs, 15)
        lsb == IF lsb0 >= 10 THEN lsb0 + 6 ELSE lsb0
        msb0 == rhs \div 16
        msb1 == IF lsb >= 16 THEN msb0 + 1 ELSE msb0
        msb == IF alu.carry \/ msb1 >= 10 THEN msb1 + 6 ELSE msb1
        res == BitOr((msb * 16) % 256, BitAnd(lsb, 15))
    IN  <<res,
          set_by_result(res)
          \cup (IF lsb >= 16 THEN {"AuxiliaryCarry"} ELSE {})
          \cup (IF msb >= 16 \/ alu.carry THEN {"Carry"} ELSE {})>>

\* impl ALU for DecimalAdjuster
DecimalAdjuster_op(alu, lhs, rhs) ==
    LET lsb0 == BitAnd(rhs, 15)
        lsb == IF alu.auxiliary \/ lsb0 >= 10 THEN lsb0 + 6 ELSE lsb0
        msb0 == rhs \div 16
        msb1 == IF lsb >= 16 THEN msb0 + 1 ELSE msb0
        msb == IF alu.carry \/ msb1 >= 10 THEN msb1 + 6 ELSE msb1
        res == BitOr((msb * 16) % 256, BitAnd(lsb, 15))
    IN  <<res,
          set_by_result(res)
          \cup (IF lsb >= 16 THEN {"AuxiliaryCarry"} ELSE {})
          \cup (IF msb >= 16 \/ alu.carry THEN {"Carry"} ELSE {})>>

\* ALU::op through the Box<dyn ALU>
alu_apply(alu, lhs, rhs) ==
    CASE alu.kind = "Adder" -> Adder_op(alu, lhs, rhs)
      [] alu.kind \in {"Increase", "Decrease"} -> IncDecOperator_op(alu, lhs, rhs)
      [] alu.kind \in {"And", "Or", "Not", "Xor"} -> LogicalOperator_op(alu, lhs, rhs)
      [] alu.kind = "Rotator" -> Rotator_op(alu, lhs, rhs)
      [] alu.kind = "DecimalAdjuster" -> DecimalAdjuster_op(alu, lhs, rhs)

----------------------------------------------------------------------------
(* Micro-sequences of I8080Console (src/src/processor.rs)                  *)

\* I8080Console::move_reg_to_reg
move_reg_to_reg(s, dst, src) ==
    LET s1 == read_to_data(s, src)
        s2 == load_from_data(s1, "Tmp")
        s3 == read_to_data(s2, "Tmp")
    IN  load_from_data(s3, dst)

\* I8080Console::move_hl_mem_to_reg
move_hl_mem_to_reg(s, dst) == load_from_data(fetch_hl(s), dst)

\* I8080Console::store_reg_to_hl_mem
store_reg_to_hl_mem(s, src) ==
    LET s1 == read_to_data(s, src)
        s2 == load_from_data(s1, "Tmp")
        s3 == read_to_data(s2, "Tmp")
    IN  store_hl(s3)

\* I8080Console::move_reg_immediate
move_reg_immediate(s, dst) == load_from_data(fetch_instruction(s), dst)

\* I8080Console::store_hl_immediate
store_hl_immediate(s) ==
    LET s1 == fetch_instruction(s)
        s2 == load_from_data(s1, "Tmp")
        s3 == read_to_data(s2, "Tmp")
    IN  store_hl(s3)

\* I8080Console::move_sp_from_hl
move_sp_from_hl(s) == load_reg16_from_reg16(s, "SP", "HL")

\* I8080Console::move_reg16_immediate: first operand byte to the high cell,
\* second to the low cell
move_reg16_immediate(s, dst) ==
    LET s1 == load_from_data(fetch_instruction(s), split(dst)[1])
    IN  load_from_data(fetch_instruction(s1), split(dst)[2])

\* I8080Console::move_reg_direct
move_reg_direct(s, dst) ==
    LET s1 == fetch_operand_to_wz(s)
        s2 == fetch(code_reg16_read_to_address(s1, "WZ"))
    IN  load_from_data(s2, dst)

\* I8080Console::store_reg_direct
store_reg_direct(s, src) ==
    LET s1 == fetch_operand_to_wz(s)
        s2 == code_reg16_read_to_address(s1, "WZ")
        s3 == read_to_data(s2, src)
    IN  store(s3)

\* I8080Console::move_reg16_direct
move_reg16_direct(s, dst) ==
    LET s1 == fetch_operand_to_wz(s)
        s2 == fetch(code_reg16_read_to_address(s1, "WZ"))
        s3 == load_from_data(s2, split(dst)[2])
        s4 == reg16_increment(s3, "WZ")
        s5 == fetch(code_reg16_read_to_address(s4, "WZ"))
    IN  load_from_data(s5, split(dst)[1])

\* I8080Console::store_reg16_direct: first operand byte to W, second to Z;
\* the high cell is stored first
store_reg16_direct(s, src) ==
    LET s1 == load_from_data(fetch_instruction(s), "W")
        s2 == load_from_data(fetch_instruction(s1), "Z")
        s3 == code_reg16_read_to_address(s2, "WZ")
        s4 == store(read_to_data(s3, split(src)[1]))
        s5 == reg16_increment(s4, "WZ")
        s6 == code_reg16_read_to_address(s5, "WZ")
    IN  store(read_to_data(s6, split(src)[2]))

\* I8080Console::move_indirect
move_indirect(s, dst, src) ==
    load_from_data(fetch(code_reg16_read_to_address(s, src)), dst)

\* I8080Console::store_indirect
store_indirect(s, dst, src) ==
    store(code_reg16_read_to_address(read_to_data(s, dst), src))

\* I8080Console::exchange8
exchange8(s, dst, src) ==
    LET s1 == code_reg_mut(code_reg_mut(s, src), dst)
        src_tmp == code_reg_as_u8(s1, src)
        dst_tmp == code_reg_as_u8(s1, dst)
    IN  reg_load(reg_load(s1, src, dst_tmp), dst, src_tmp)

\* I8080Console::exchange16
exchange16(s, dst, src) ==
    exchange8(exchange8(s, split(dst)[1], split(src)[1]),
              split(dst)[2], split(src)[2])

\* I8080Console::flag_decode
flag_decode(flag) ==
    CASE flag = "Zero" -> 64
      [] flag = "Sign" -> 128
      [] flag = "Parity" -> 4
      [] flag = "Carry" -> 1
      [] flag = "AuxiliaryCarry" -> 16

\* flag_scramble folding from 0 instead of 2 (the fault C12 is checked
\* against)
flag_scramble_from_zero(status) ==
    LET term(f) == IF f \in status THEN flag_decode(f) ELSE 0
    IN  term("Zero") + term("Sign") + term("Parity") + term("Carry")
          + term("AuxiliaryCarry")

\* I8080Console::flag_scramble: fold(2, |acc, f| acc + flag_decode(f))
flag_scramble(status) ==
    LET term(f) == IF f \in status THEN flag_decode(f) ELSE 0
    IN  2 + term("Zero") + term("Sign") + term("Parity") + term("Carry")
          + term("AuxiliaryCarry")

\* I8080Console::flag_collect
flag_collect(flags) == {f \in StatusFlag : BitAnd(flag_decode(f), flags) > 0}

\* I8080Console::flag_status
flag_status(s) == flag_collect(code_reg_as_u8(s, "Flag"))

\* I8080Console::alu_from_code
alu_from_code(s, code) ==
    CASE code = "Add" -> adder
      [] code = "AddCarried" ->
            IF "Carry" \in flag_status(s) THEN carried_adder ELSE adder
      [] code = "Sub" -> subber
      [] code = "SubBorrowed" ->
            IF "Carry" \in flag_status(s) THEN borrowed_subber ELSE subber
      [] code = "Increment" -> [kind |-> "Increase"]
      [] code = "Decrement" -> [kind |-> "Decrease"]
      [] code = "DecimalAdjust" -> from_status(flag_status(s))
      [] code = "LogicAnd" -> [kind |-> "And"]
      [] code = "LogicOr" -> [kind |-> "Or"]
      [] code = "LogicXor" -> [kind |-> "Xor"]
      [] code = "RotateLeft" -> rotate_left
      [] code = "RotateRight" -> rotate_right
      [] code = "RotateLeftThroughCarry" ->
            carried(through_carry(rotate_right), "Carry" \in flag_status(s))
      [] code = "RotateRightThroughCarry" ->
            carried(through_carry(rotate_left), "Carry" \in flag_status(s))
      [] code = "ComplementAcc" -> [kind |-> "Not"]

\* I8080Console::alu_op
alu_op(s, alu) ==
    LET s1 == code_reg_mut(code_reg_mut(s, "Acc"), "Tmp")
        r == alu_apply(alu, code_reg_as_u8(s1, "Acc"), code_reg_as_u8(s1, "Tmp"))
    IN  reg_load(data_bus_set(s1, r[1]), "Flag", flag_scramble(r[2]))

\* I8080Console::alu_with_reg
alu_with_reg(s, alu, rhs) ==
    LET s1 == load_from_data(read_to_data(s, rhs), "Tmp")
        s2 == alu_op(s1, alu_from_code(s1, alu))
    IN  load_from_data(s2, "Acc")

\* I8080Console::alu_with_reg_to_reg
alu_with_reg_to_reg(s, alu, rhs) ==
    LET s1 == load_from_data(read_to_data(s, rhs), "Tmp")
        s2 == alu_op(s1, alu_from_code(s1, alu))
    IN  load_from_data(s2, rhs)

\* I8080Console::alu_with_mem
alu_with_mem(s, alu) ==
    LET s1 == load_from_data(fetch_hl(s), "Tmp")
        s2 == alu_op(s1, alu_from_code(s1, alu))
    IN  load_from_data(s2, "Acc")

\* I8080Console::alu_with_mem_to_mem
alu_with_mem_to_mem(s, alu) ==
    LET s1 == load_from_data(fetch_hl(s), "Tmp")
        s2 == alu_op(s1, alu_from_code(s1, alu))
    IN  store(s2)

\* I8080Console::alu_with_immediate
alu_with_immediate(s, alu) ==
    LET s1 == load_from_data(fetch_instruction(s), "Tmp")
        s2 == alu_op(s1, alu_from_code(s1, alu))
    IN  load_from_data(s2, "Acc")

\* I8080Console::cmp_with_reg
cmp_with_reg(s, rhs) ==
    LET s1 == load_from_data(read_to_data(s, rhs), "Tmp")
    IN  alu_op(s1, alu_from_code(s1, "Sub"))

\* I8080Console::cmp_with_mem
cmp_with_mem(s) ==
    LET s1 == load_from_data(fetch_hl(s), "Tmp")
    IN  alu_op(s1, alu_from_code(s1, "Sub"))

\* cmp_with_immediate that keeps the result byte: SUI
cmp_with_immediate_storing(s) == alu_with_immediate(s, "Sub")

\* I8080Console::cmp_with_immediate
cmp_with_immediate(s) ==
    LET s1 == load_from_data(fetch_instruction(s), "Tmp")
    IN  alu_op(s1, alu_from_code(s1, "Sub"))

\* MaskedRegister::read
masked_read(cell, mask) == BitAnd(cell, mask)

\* MaskedRegister::load that drops the bits outside the mask
masked_load_overwriting(cell, mask, bits) == BitAnd(bits, mask)

\* MaskedRegister::load: the new cell value
masked_load(cell, mask, bits) ==
    BitOr(BitAnd(bits, mask), BitAnd(cell, BitNot(mask)))

\* code_reg_mut(code).reg.masked(mask).load(bits)
reg_masked_load(s, code, mask, bits) ==
    LET s1 == code_reg_mut(s, code)
    IN  reg_load(s1, code, masked_load(code_reg_as_u8(s1, code), mask, bits))

\* flag_complement without the test of flag_status: the bit is always set
flag_complement_always_sets(s, flag) ==
    reg_masked_load(s, "Flag", flag_decode(flag), 255)

\* I8080Console::flag_complement
flag_complement(s, flag) ==
    IF flag \in flag_status(s)
    THEN reg_masked_load(s, "Flag", flag_decode(flag), 0)
    ELSE reg_masked_load(s, "Flag", flag_decode(flag), 255)

\* I8080Console::flag_set
flag_set(s, flag) == reg_masked_load(s, "Flag", flag_decode(flag), 255)

----------------------------------------------------------------------------
(* Jumps, calls, returns, stack                                            *)

I8080JumpCondition ==
    {"Anytime", "OnNonZero", "OnZero", "OnNonCarry", "OnCarry", "OnParityOdd",
     "OnParityEven", "OnPlus", "OnMinus"}

\* I8080Console::flag_objected_by: <<flag, expected>>; the Anytime arm is
\* unreachable!()
flag_objected_by(cond) ==
    CASE cond = "OnNonZero" -> <<"Zero", FALSE>>
      [] cond = "OnZero" -> <<"Zero", TRUE>>
      [] cond = "OnNonCarry" -> <<"Carry", FALSE>>
      [] cond = "OnCarry" -> <<"Carry", TRUE>>
      [] cond = "OnParityOdd" -> <<"Parity", FALSE>>
      [] cond = "OnParityEven" -> <<"Parity", TRUE>>
      [] cond = "OnPlus" -> <<"Sign", FALSE>>
      [] cond = "OnMinus" -> <<"Sign", TRUE>>
      [] OTHER -> <<"unreachable", FALSE>>

\* satisfying_condition that ignores the expected value: satisfied when the
\* flag is set
satisfying_condition_when_set(s, cond) ==
    IF cond = "Anytime" THEN TRUE
    ELSE flag_objected_by(cond)[1] \in flag_status(s)

\* I8080Console::satisfying_condition
satisfying_condition(s, cond) ==
    IF cond = "Anytime" THEN TRUE
    ELSE (flag_objected_by(cond)[1] \in flag_status(s)) = flag_objected_by(cond)[2]

\* the unreachable!() of flag_objected_by, when satisfying_condition reaches it
condition_checked(s, cond) ==
    IF cond # "Anytime" /\ flag_objected_by(cond)[1] = "unreachable"
    THEN panic(s, "decode") ELSE s

\* I8080Console::jump_immediate
jump_immediate(s, cond) ==
    LET s1 == condition_checked(fetch_operand_to_wz(s), cond)
    IN  IF satisfying_condition(s1, cond)
        THEN load_reg16_from_reg16(s1, "PC", "WZ")
        ELSE s1

\* I8080Console::call_immediate
call_immediate(s, cond) ==
    LET s1 == condition_checked(fetch_operand_to_wz(s), cond)
        s2 == reg16_increment(s1, "SP")
        s3 == read_to_data(s2, split("PC")[1])
        s4 == store(code_reg16_read_to_address(s3, "SP"))
        s5 == reg16_decrement(s4, "SP")
        s6 == read_to_data(s5, split("PC")[2])
        s7 == store(code_reg16_read_to_address(s6, "SP"))
    IN  IF satisfying_condition(s1, cond)
        THEN load_reg16_from_reg16(s7, "PC", "WZ")
        ELSE s1

\* ret that pops the high byte of the address first
ret_high_first(s, cond) ==
    LET s0 == condition_checked(s, cond)
        s1 == fetch(code_reg16_read_to_address(s0, "SP"))
        s2 == reg16_increment(load_from_data(s1, "W"), "SP")
        s3 == fetch(code_reg16_read_to_address(s2, "SP"))
        s4 == reg16_increment(load_from_data(s3, "Z"), "SP")
    IN  IF satisfying_condition(s0, cond)
        THEN load_reg16_from_reg16(s4, "PC", "WZ")
        ELSE s0

\* I8080Console::ret
ret(s, cond) ==
    LET s0 == condition_checked(s, cond)
        s1 == fetch(code_reg16_read_to_address(s0, "SP"))
        s2 == reg16_increment(load_from_data(s1, "Z"), "SP")
        s3 == fetch(code_reg16_read_to_address(s2, "SP"))
        s4 == reg16_increment(load_from_data(s3, "W"), "SP")
    IN  IF satisfying_condition(s0, cond)
        THEN load_reg16_from_reg16(s4, "PC", "WZ")
        ELSE s0

\* I8080Console::restart
restart(s, n) ==
    LET pch == 0
        pcl == n * 8
        s1 == reg16_decrement(s, "SP")
        s2 == data_bus_set(s1, pch)
        s3 == store(code_reg16_read_to_address(s2, "SP"))
        s4 == reg16_decrement(s3, "SP")
        s5 == data_bus_set(s4, pcl)
        s6 == store(code_reg16_read_to_address(s5, "SP"))
    IN  load_reg16_from_reg16(s6, "PC", "WZ")

\* I8080Console::pchl
pchl(s) == load_reg16_from_reg16(s, "PC", "HL")

\* I8080Console::push_reg16
push_reg16(s, code) ==
    LET s1 == reg16_decrement(s, "SP")
        s2 == read_to_data(s1, split(code)[1])
        s3 == store(code_reg16_read_to_address(s2, "SP"))
        s4 == reg16_decrement(s3, "SP")
        s5 == read_to_data(s4, split(code)[2])
    IN  store(code_reg16_read_to_address(s5, "SP"))

\* I8080Console::pop_reg16: the byte at SP goes to the high cell, the byte
\* at SP + 1 to the low cell
pop_reg16(s, code) ==
    LET s1 == fetch(code_reg16_read_to_address(s, "SP"))
        s2 == reg16_increment(load_from_data(s1, split(code)[1]), "SP")
        s3 == fetch(code_reg16_read_to_address(s2, "SP"))
    IN  reg16_increment(load_from_data(s3, split(code)[2]), "SP")

\* exchange_stack_top_with_hl without the final reg16_decrement(SP)
exchange_stack_top_with_hl_leaving_sp(s) ==
    LET s1 == fetch(code_reg16_read_to_address(s, "SP"))
        s2 == load_from_data(s1, "Z")
        s3 == store(read_to_data(s2, "L"))
        s4 == reg16_increment(s3, "SP")
        s5 == fetch(code_reg16_read_to_address(s4, "SP"))
        s6 == load_from_data(s5, "W")
        s7 == store(read_to_data(s6, "H"))
    IN  load_reg16_from_reg16(s7, "HL", "WZ")

\* I8080Console::exchange_stack_top_with_hl
exchange_stack_top_with_hl(s) ==
    LET s1 == fetch(code_reg16_read_to_address(s, "SP"))
        s2 == load_from_data(s1, "Z")
        s3 == store(read_to_data(s2, "L"))
        s4 == reg16_increment(s3, "SP")
        s5 == fetch(code_reg16_read_to_address(s4, "SP"))
        s6 == load_from_data(s5, "W")
        s7 == store(read_to_data(s6, "H"))
        s8 == reg16_decrement(s7, "SP")
    IN  load_reg16_from_reg16(s8, "HL", "WZ")

\* I8080Console::sphl
sphl(s) == load_reg16_from_reg16(s, "SP", "HL")

\* I8080Console::input: stdin is what read_exact returns, [ok, byte];
\* a failed read is unwrap()ped
input(s, stdin) ==
    LET s1 == fetch_instruction(s)
    IN  IF stdin.ok
        THEN load_from_data(data_bus_set(s1, stdin.byte), "Acc")
        ELSE panic(s1, "io")

\* I8080Console::output
output(s) == read_to_data(fetch_instruction(s), "Acc")

\* I8080Console::enable_interrupt
enable_interrupt(s) == s

\* disable_interrupt that stops the processor
disable_interrupt_halting(s) ==
    IF ~Ok(s) THEN s ELSE [s EXCEPT !.halted = TRUE]

\* I8080Console::disable_interrupt
disable_interrupt(s) == s

\* halt without its assignment (the fault C4 is checked against)
halt_forgets(s) == s

\* I8080Console::halt
halt(s) == IF ~Ok(s) THEN s ELSE [s EXCEPT !.halted = TRUE]

\* I8080Console::no_op
no_op(s) == s

----------------------------------------------------------------------------
(* Decoder and run loop                                                    *)

\* I8080Console::reg16_code_from_bits
reg16_code_from_bits(bits) ==
    CASE bits = 0 -> "BC"
      [] bits = 1 -> "DE"
      [] bits = 2 -> "HL"
      [] bits = 3 -> "SP"
      [] OTHER -> "unreachable"

\* I8080Console::reg_code_from_bits
reg_code_from_bits(bits) ==
    CASE bits = 0 -> "B"
      [] bits = 1 -> "C"
      [] bits = 2 -> "D"
      [] bits = 3 -> "E"
      [] bits = 4 -> "H"
      [] bits = 5 -> "L"
      [] bits = 7 -> "Acc"
      [] OTHER -> "unreachable"

\* I8080Console::condition_code_from_bits
condition_code_from_bits(bits) ==
    CASE bits = 0 -> "OnNonZero"
      [] bits = 1 -> "OnZero"
      [] bits = 2 -> "OnNonCarry"
      [] bits = 3 -> "OnCarry"
      [] bits = 4 -> "OnParityOdd"
      [] bits = 5 -> "OnParityEven"
      [] bits = 6 -> "OnPlus"
      [] bits = 7 -> "OnMinus"
      [] OTHER -> "unreachable"

\* A handler whose decoded argument hit unreachable!() is never entered:
\* the panic unwinds execute() right after the opcode was latched.
decoded(s, code, t) == IF code = "unreachable" THEN panic(s, "decode") ELSE t

\* DAD that sets Carry on overflow and never clears it
dad_keeping_carry(s, rp) ==
    LET hl == code_reg16_as_u16(s, "HL")
        rpv == code_reg16_as_u16(s, rp)
        res == (hl + rpv) % 65536
        s1 == IF hl + rpv > 65535
              THEN reg_masked_load(s, "Flag", flag_decode("Carry"), 255)
              ELSE s
        s2 == reg_load(s1, split("HL")[1], to_be_bytes(res)[1])
    IN  reg_load(s2, split("HL")[2], to_be_bytes(res)[2])

\* execute, op = 0, (rhs, 1) with rhs odd: DAD
dad(s, rp) ==
    LET hl == code_reg16_as_u16(s, "HL")
        rpv == code_reg16_as_u16(s, rp)
        res == (hl + rpv) % 65536
        carry == hl + rpv > 65535
        s1 == IF carry THEN reg_masked_load(s, "Flag", flag_decode("Carry"), 255)
              ELSE reg_masked_load(s, "Flag", flag_decode("Carry"), 0)
        s2 == reg_load(s1, split("HL")[1], to_be_bytes(res)[1])
    IN  reg_load(s2, split("HL")[2], to_be_bytes(res)[2])

\* execute, match op { 0 => match (dst, src) {..} }: the arms in source order
execute_op0(s, dst, src) ==
    LET r(b) == reg_code_from_bits(b)
        rp(b) == reg16_code_from_bits(b)
    IN
    IF dst = 0 /\ src = 0 THEN no_op(s)
    ELSE IF src = 0 THEN no_op(s)
    ELSE IF dst = 0 /\ src = 7 THEN alu_with_reg(s, "RotateLeft", "Acc")
    ELSE IF dst = 1 /\ src = 7 THEN alu_with_reg(s, "RotateRight", "Acc")
    ELSE IF dst = 2 /\ src = 7 THEN alu_with_reg(s, "RotateLeftThroughCarry", "Acc")
    ELSE IF dst = 3 /\ src = 7 THEN alu_with_reg(s, "RotateRightThroughCarry", "Acc")
    ELSE IF dst = 4 /\ src = 2 THEN store_reg16_direct(s, "HL")
    ELSE IF dst = 4 /\ src = 7 THEN alu_with_reg(s, "DecimalAdjust", "Acc")
    ELSE IF dst = 5 /\ src = 2 THEN move_reg16_direct(s, "HL")
    ELSE IF dst = 5 /\ src = 7 THEN alu_with_reg(s, "ComplementAcc", "Acc")
    ELSE IF dst = 6 /\ src = 2 THEN store_reg_direct(s, "Acc")
    ELSE IF dst = 6 /\ src = 4 THEN alu_with_mem_to_mem(s, "Increment")
    ELSE IF dst = 6 /\ src = 5 THEN alu_with_mem_to_mem(s, "Decrement")
    ELSE IF dst = 6 /\ src = 6 THEN store_hl_immediate(s)
    ELSE IF dst = 6 /\ src = 7 THEN flag_complement(s, "Carry")
    ELSE IF dst = 7 /\ src = 2 THEN move_reg_direct(s, "Acc")
    ELSE IF dst = 7 /\ src = 7 THEN flag_set(s, "Carry")
    ELSE IF src = 1 /\ dst % 2 = 0
         THEN decoded(s, rp(dst \div 2), move_reg16_immediate(s, rp(dst \div 2)))
    ELSE IF src = 2 /\ dst % 2 = 0
         THEN decoded(s, rp(dst \div 2), move_indirect(s, "Acc", rp(dst \div 2)))
    ELSE IF src = 2 /\ dst % 2 = 1
         THEN decoded(s, rp(dst \div 2), move_indirect(s, "Acc", rp(dst \div 2)))
    ELSE IF src = 3 /\ dst % 2 = 0
         THEN decoded(s, rp(dst \div 2), reg16_increment(s, rp(dst \div 2)))
    ELSE IF src = 3 /\ dst % 2 = 1
         THEN decoded(s, rp(dst \div 2), reg16_increment(s, rp(dst \div 2)))
    ELSE IF src = 4 THEN decoded(s, r(dst), alu_with_reg_to_reg(s, "Increment", r(dst)))
    ELSE IF src = 5 THEN decoded(s, r(dst), alu_with_reg_to_reg(s, "Decrement", r(dst)))
    ELSE IF src = 6 THEN decoded(s, r(dst), move_reg_immediate(s, r(dst)))
    ELSE IF src = 1 /\ dst % 2 = 1
         THEN decoded(s, rp(dst \div 2), dad(s, rp(dst \div 2)))
    ELSE no_op(s)

\* The op = 1 arms without the (6, 6) => halt arm in front (the fault C3 and
\* C5 are checked against): 0x76 falls through to the MOV arms
execute_op1_without_hlt(s, dst, src) ==
    LET r(b) == reg_code_from_bits(b)
    IN
    IF src = 6 THEN decoded(s, r(dst), move_hl_mem_to_reg(s, r(dst)))
    ELSE IF dst = 6 THEN decoded(s, r(src), store_reg_to_hl_mem(s, r(src)))
    ELSE decoded(s, r(dst), decoded(s, r(src), move_reg_to_reg(s, r(dst), r(src))))

\* execute, match op { 1 => match (dst, src) {..} }
execute_op1(s, dst, src) ==
    LET r(b) == reg_code_from_bits(b)
    IN
    IF dst = 6 /\ src = 6 THEN halt(s)
    ELSE IF src = 6 THEN decoded(s, r(dst), move_hl_mem_to_reg(s, r(dst)))
    ELSE IF dst = 6 THEN decoded(s, r(src), store_reg_to_hl_mem(s, r(src)))
    ELSE decoded(s, r(dst), decoded(s, r(src), move_reg_to_reg(s, r(dst), r(src))))

\* execute, match op { 2 => match (dst, src) {..} }
execute_op2(s, dst, src) ==
    LET r(b) == reg_code_from_bits(b)
        code == CASE dst = 0 -> "Add"
                  [] dst = 1 -> "AddCarried"
                  [] dst = 2 -> "Sub"
                  [] dst = 3 -> "SubBorrowed"
                  [] dst = 4 -> "LogicAnd"
                  [] dst = 5 -> "LogicXor"
                  [] dst = 6 -> "LogicOr"
                  [] OTHER -> "Cmp"
    IN
    IF dst \notin 0..7 THEN panic(s, "decode")
    ELSE IF dst = 7 /\ src = 6 THEN cmp_with_mem(s)
    ELSE IF dst = 7 THEN decoded(s, r(src), cmp_with_reg(s, r(src)))
    ELSE IF src = 6 THEN alu_with_mem(s, code)
    ELSE decoded(s, r(src), alu_with_reg(s, code, r(src)))

\* execute, match op { 3 => match (dst, src) {..} }: the arms in source order
execute_op3(s, dst, src, stdin) ==
    LET rp(b) == reg16_code_from_bits(b)
        cc(b) == condition_code_from_bits(b)
    IN
    IF dst = 1 /\ src = 1 THEN ret(s, "Anytime")
    ELSE IF dst = 2 /\ src = 1 THEN ret(s, "Anytime")
    ELSE IF dst = 4 /\ src = 1 THEN pop_reg16(s, "PSW")
    ELSE IF dst = 5 /\ src = 1 THEN pchl(s)
    ELSE IF dst = 7 /\ src = 1 THEN sphl(s)
    ELSE IF dst = 0 /\ src = 3 THEN jump_immediate(s, "Anytime")
    ELSE IF dst = 1 /\ src = 3 THEN jump_immediate(s, "Anytime")
    ELSE IF dst = 2 /\ src = 3 THEN output(s)
    ELSE IF dst = 3 /\ src = 3 THEN input(s, stdin)
    ELSE IF dst = 4 /\ src = 3 THEN exchange_stack_top_with_hl(s)
    ELSE IF dst = 5 /\ src = 3 THEN exchange16(s, "HL", "DE")
    ELSE IF dst = 6 /\ src = 3 THEN disable_interrupt(s)
    ELSE IF dst = 7 /\ src = 3 THEN enable_interrupt(s)
    ELSE IF dst = 1 /\ src = 5 THEN call_immediate(s, "Anytime")
    ELSE IF dst = 3 /\ src = 5 THEN call_immediate(s, "Anytime")
    ELSE IF dst = 4 /\ src = 5 THEN push_reg16(s, "PSW")
    ELSE IF dst = 5 /\ src = 5 THEN call_immediate(s, "Anytime")
    ELSE IF dst = 7 /\ src = 5 THEN call_immediate(s, "Anytime")
    ELSE IF dst = 0 /\ src = 6 THEN alu_with_immediate(s, "Add")
    ELSE IF dst = 1 /\ src = 6 THEN alu_with_immediate(s, "AddCarried")
    ELSE IF dst = 2 /\ src = 6 THEN alu_with_immediate(s, "Sub")
    ELSE IF dst = 3 /\ src = 6 THEN alu_with_immediate(s, "SubBorrowed")
    ELSE IF dst = 4 /\ src = 6 THEN alu_with_immediate(s, "LogicAnd")
    ELSE IF dst = 5 /\ src = 6 THEN alu_with_immediate(s, "LogicXor")
    ELSE IF dst = 6 /\ src = 6 THEN alu_with_immediate(s, "LogicOr")
    ELSE IF dst = 7 /\ src = 6 THEN cmp_with_immediate(s)
    ELSE IF src = 0 THEN decoded(s, cc(dst), ret(s, cc(dst)))
    ELSE IF src = 2 THEN decoded(s, cc(dst), jump_immediate(s, cc(dst)))
    ELSE IF src = 4 THEN decoded(s, cc(dst), call_immediate(s, cc(dst)))
    ELSE IF src = 1 /\ dst % 2 = 0
         THEN decoded(s, rp(dst \div 2), pop_reg16(s, rp(dst \div 2)))
    ELSE IF src = 5 /\ dst % 2 = 0
         THEN decoded(s, rp(dst \div 2), push_reg16(s, rp(dst \div 2)))
    ELSE IF src = 7 THEN restart(s, dst)
    ELSE no_op(s)

\* I8080Console::execute: fetch, latch into Inst, split into (op, dst, src),
\* dispatch
execute(s, stdin) ==
    LET s1 == load_from_data(fetch_instruction(s), "Inst")
        inst == code_reg_as_u8(code_reg_mut(s1, "Inst"), "Inst")
        op == inst \div 64
        dst == (inst \div 8) % 8
        src == inst % 8
    IN  IF ~Ok(s1) THEN s1
        ELSE CASE op = 0 -> execute_op0(s1, dst, src)
               [] op = 1 -> execute_op1(s1, dst, src)
               [] op = 2 -> execute_op2(s1, dst, src)
               [] op = 3 -> execute_op3(s1, dst, src, stdin)
               [] OTHER -> panic(s1, "decode")

----------------------------------------------------------------------------
(* The console as the state of the model                                   *)

\* Longest sequence of direct calls made on one console
MaxSteps == 2

Console ==
    [regs |-> regs, ram |-> ram, data_bus |-> data_bus,
     address_bus |-> address_bus, halted |-> halted, fault |-> fault]

\* The console becomes t
Becomes(t) ==
    /\ regs' = t.regs
    /\ ram' = t.ram
    /\ data_bus' = t.data_bus
    /\ address_bus' = t.address_bus
    /\ halted' = t.halted
    /\ fault' = t.fault

\* A caller may make another call: the last one returned
CanCall == fault = "none" /\ runpc = "idle" /\ Len(trail) < MaxSteps

\* The call op(arg) turns the console into t
Call(op, arg, t) ==
    /\ Becomes(t)
    /\ trail' = Append(trail, [op |-> op, arg |-> arg, pre |-> Console])
    /\ UNCHANGED <<image, runpc, turns, args, retval>>

\* code_reg_mut(h).reg.load(..); code_reg_mut(l).reg.load(..) for the two
\* cells of a pair: the register map rs with the pair holding the word w
WithPair(rs, pair, w) ==
    RegInsert(RegInsert(rs, split(pair)[1], to_be_bytes(w)[1]),
              split(pair)[2], to_be_bytes(w)[2])

\* A register map holding the pairs PC, SP, HL, BC and PSW
RegFile(pc, sp, hl, bc, psw) ==
    WithPair(WithPair(WithPair(WithPair(WithPair(<<>>, "PC", pc), "SP", sp),
                               "HL", hl), "BC", bc), "PSW", psw)

\* No free function has been called
NotCalled == [fn |-> "none"]

\* The console starts as built by I8080Console { memory, ..Default::default() }
\* with the given register map
Built(rs, r, name) ==
    /\ regs = rs
    /\ ram = r
    /\ data_bus = 0
    /\ address_bus = 0
    /\ halted = FALSE
    /\ fault = "none"
    /\ image = name
    /\ runpc = "idle"
    /\ turns = 0
    /\ trail = <<>>
    /\ args = <<>>
    /\ retval = NotCalled

PC == from_be_bytes(code_reg_as_u8(Console, "PcH"), code_reg_as_u8(Console, "PcL"))

SP == from_be_bytes(code_reg_as_u8(Console, "SpH"), code_reg_as_u8(Console, "SpL"))

\* The last call made and the one before it
Last == trail[Len(trail)]

Before == trail[Len(trail) - 1]

----------------------------------------------------------------------------
(* Spec: direct calls of the bus, memory and stack primitives              *)

InitPC == {0, 4660, 65535}

InitSP == {0, 1, 8192, 65535}

InitHL == {4660, 65535}

InitBC == {4660}

InitPSW == {22103}

Init ==
    \E r \in {RamDefault, RamRamp} :
        \/ Built(<<>>, r, r.base)
        \/ \E pc \in InitPC, sp \in InitSP, hl \in InitHL, bc \in InitBC,
              psw \in InitPSW :
              Built(RegFile(pc, sp, hl, bc, psw), r, r.base)

PushPopPairs == {"BC", "DE", "HL", "PSW"}

FetchInstruction ==
    /\ CanCall
    /\ Call("fetch_instruction", "", fetch_instruction(Console))

CodeReg16ReadToAddress ==
    /\ CanCall
    /\ \E code \in {"HL", "SP", "PC"} :
          Call("code_reg16_read_to_address", code,
               code_reg16_read_to_address(Console, code))

ReadToData ==
    /\ CanCall
    /\ \E code \in {"B", "Acc"} :
          Call("read_to_data", code, read_to_data(Console, code))

Store ==
    /\ CanCall
    /\ Call("store", "", store(Console))

Fetch ==
    /\ CanCall
    /\ Call("fetch", "", fetch(Console))

PushReg16 ==
    /\ CanCall
    /\ \E code \in PushPopPairs :
          Call("push_reg16", code, push_reg16(Console, code))

PopReg16 ==
    /\ CanCall
    /\ \E code \in PushPopPairs :
          Call("pop_reg16", code, pop_reg16(Console, code))

Next ==
    \/ FetchInstruction
    \/ CodeReg16ReadToAddress
    \/ ReadToData
    \/ Store
    \/ Fetch
    \/ PushReg16
    \/ PopReg16

Spec == Init /\ [][Next]_vars

----------------------------------------------------------------------------
(* SpecExec: execute() called on consoles whose PC points at each opcode   *)

\* What read_exact on stdin may give the IN instruction
Stdin ==
    {[ok |-> TRUE, byte |-> 65], [ok |-> TRUE, byte |-> 0],
     [ok |-> FALSE, byte |-> 0]}

ExecSP == {0, 8192}

\* A register map with every architectural register and WZ loaded
ExecRegs(pc, sp) ==
    WithPair(WithPair(RegFile(pc, sp, 16640, 4660, 22103), "DE", 39612),
             "WZ", 513)

\* CALL 0x0100 flashed at address a and RET flashed at 0x0100
CallRetImage(a) == flash(flash(RamDefault, <<205, 0, 1>>, a), <<201>>, 256)

CallSites == {0, 512, 4660}

CallSPs == {8192, 32768, 65534}

InitExec ==
    \/ \E pc \in 0..255, sp \in ExecSP :
          \/ Built(WithPair(WithPair(<<>>, "PC", pc), "SP", sp), RamRamp, "ramp")
          \/ Built(ExecRegs(pc, sp), RamRamp, "ramp")
    \/ \E a \in CallSites, sp \in CallSPs :
          Built(WithPair(WithPair(<<>>, "PC", a), "SP", sp), CallRetImage(a),
                "call_ret")

Execute ==
    /\ CanCall
    /\ \E stdin \in Stdin : Call("execute", "", execute(Console, stdin))

NextExec == Execute

SpecExec == InitExec /\ [][NextExec]_vars

----------------------------------------------------------------------------
(* SpecRun: run() on a freshly built console                               *)

\* LXI B,0x1234; MOV A,B; STA 0x0010; HLT in Intel 8080 encoding
ProgramLxiSta == <<1, 52, 18, 120, 50, 16, 0, 118>>

\* MVI A,0x3C; ADI 0xC4; HLT
ProgramMviAdi == <<62, 60, 198, 196, 118>>

RunImages == {"ramp", "lxi_sta", "mvi_adi"}

\* The loop iterations followed; the longest run, on the ramp, takes 101 steps
MaxTurns == 128

RunImage(name) ==
    CASE name = "ramp" -> RamRamp
      [] name = "lxi_sta" -> flash(RamDefault, ProgramLxiSta, 0)
      [] name = "mvi_adi" -> flash(RamDefault, ProgramMviAdi, 0)

InitRun == \E name \in RunImages : Built(<<>>, RunImage(name), name)

\* run(): self.halted = false
RunEnter ==
    /\ runpc = "idle"
    /\ trail = <<>>
    /\ halted' = FALSE
    /\ runpc' = "loop"
    /\ turns' = turns + 1
    /\ UNCHANGED <<regs, ram, data_bus, address_bus, fault, image, trail, args, retval>>

\* run(): while !self.halted { self.execute() }, one iteration
RunStep ==
    /\ runpc = "loop"
    /\ ~halted
    /\ turns < MaxTurns
    /\ turns' = turns + 1
    /\ \E stdin \in Stdin :
          /\ Becomes(execute(Console, stdin))
          /\ runpc' = IF execute(Console, stdin).fault = "none" THEN "loop"
                      ELSE "panicked"
    /\ UNCHANGED <<image, trail, args, retval>>

\* run(): the loop condition fails and run() returns
RunReturn ==
    /\ runpc = "loop"
    /\ halted
    /\ runpc' = "returned"
    /\ turns' = turns + 1
    /\ UNCHANGED <<regs, ram, data_bus, address_bus, halted, fault, image, trail, args, retval>>

NextRun == RunEnter \/ RunStep \/ RunReturn

SpecRun == InitRun /\ [][NextRun]_vars

\* run() takes a step.  RunTurn is enabled exactly when NextRun is, and the
\* steps of NextRun are the steps that count a turn, so under SpecRun weak
\* fairness of RunTurn is weak fairness of NextRun.
RunTurn ==
    /\ runpc \in {"idle", "loop"}
    /\ (runpc = "loop" /\ ~halted) => turns < MaxTurns
    /\ turns' = turns + 1

\* run() is a sequential loop: every iteration that can be taken is taken
FairSpecRun == SpecRun /\ WF_turns(RunTurn)

----------------------------------------------------------------------------
(* Claims settled under Spec                                               *)

\* The bytes of the architectural and scratch registers other than the
\* cells named in `except`
SameRegsExcept(s, t, except) ==
    \A c \in I8080RegisterCode \ except : code_reg_as_u8(s, c) = code_reg_as_u8(t, c)

Did(op) == Len(trail) > 0 /\ Last.op = op

\* C1: for every PC value p in 0..65535, fetch_instruction puts memory[p] on
\* the data bus and leaves PC equal to (p + 1) mod 65536, changing no other
\* register and no memory cell.
C1_FetchInstruction ==
    Did("fetch_instruction") =>
        LET p == code_reg16_as_u16(Last.pre, "PC")
        IN  /\ fault = "none"
            /\ data_bus = RamCell(Last.pre.ram, p)
            /\ PC = (p + 1) % 65536
            /\ SameRegsExcept(Console, Last.pre, {"PcH", "PcL"})
            /\ RamEq(ram, Last.pre.ram)

\* C2: for every 16-bit address a, 0xFFFF included, the read and the write
\* that fetch() and store() make at the address bus succeed without a fault,
\* and the cell written holds the byte that was on the data bus.
C2_MemoryBounds ==
    /\ Did("store") =>
          /\ fault = "none"
          /\ RamCell(ram, Last.pre.address_bus) = Last.pre.data_bus
    /\ Did("fetch") =>
          /\ fault = "none"
          /\ data_bus = RamCell(Last.pre.ram, Last.pre.address_bus)

\* C9: push_reg16(p) immediately followed by pop_reg16(p), both returning,
\* restores both bytes of p and the value of SP (for PSW: Acc and the Flag
\* byte bit for bit).
C9_PushPopRoundTrip ==
    ( /\ Len(trail) = 2
      /\ Before.op = "push_reg16"
      /\ Last.op = "pop_reg16"
      /\ Before.arg = Last.arg
      /\ fault = "none" ) =>
        /\ code_reg_as_u8(Console, split(Last.arg)[1])
              = code_reg_as_u8(Before.pre, split(Last.arg)[1])
        /\ code_reg_as_u8(Console, split(Last.arg)[2])
              = code_reg_as_u8(Before.pre, split(Last.arg)[2])
        /\ SP = code_reg16_as_u16(Before.pre, "SP")

----------------------------------------------------------------------------
(* Claims settled under SpecExec                                           *)

\* The opcode byte execute() finds at PC in console s
Opcode(s) == RamCell(s.ram, code_reg16_as_u16(s, "PC"))

\* The console execute() has when it dispatches: opcode fetched and latched
Latched(s) == load_from_data(fetch_instruction(s), "Inst")

\* C3: for every opcode byte and every register state execute() dispatches
\* to a handler: it never ends in an unreachable!/panic! arm of the decoder
\* or of the code mappings (what can still end it is a memory index out of
\* range or a failed read of stdin), and the opcode stays latched in Inst.
C3_DecodeTotal ==
    Did("execute") =>
        /\ fault \in {"none", "bounds", "io"}
        /\ fault = "none" => code_reg_as_u8(Console, "Inst") = Opcode(Last.pre)

\* HLT, whose (dst, src) = (6, 6) no register code maps, has been executed
C3_Witness ==
    /\ Did("execute")
    /\ Opcode(Last.pre) = 118
    /\ fault = "none"
    /\ halted

\* C6: executing CALL 0x0100 and then the RET at 0x0100 leaves PC at the
\* byte following the 3-byte CALL and SP at its value before the CALL.
C6_CallRet ==
    ( /\ image = "call_ret"
      /\ Len(trail) = 2
      /\ fault = "none" ) =>
        /\ PC = (code_reg16_as_u16(trail[1].pre, "PC") + 3) % 65536
        /\ SP = code_reg16_as_u16(trail[1].pre, "SP")

\* C7: executing opcode 11nnn111 leaves PC = n * 8, SP two less than before
\* and the return address (the PC just past the opcode) in the two bytes at
\* the new stack top.
C7_Restart ==
    ( /\ Did("execute")
      /\ Opcode(Last.pre) >= 192
      /\ Opcode(Last.pre) % 8 = 7
      /\ fault = "none" ) =>
        LET n == (Opcode(Last.pre) \div 8) % 8
            return == (code_reg16_as_u16(Last.pre, "PC") + 1) % 65536
        IN  /\ PC = n * 8
            /\ SP = (code_reg16_as_u16(Last.pre, "SP") + 65534) % 65536
            /\ RamCell(ram, (SP + 1) % 65536) = to_be_bytes(return)[1]
            /\ RamCell(ram, SP) = to_be_bytes(return)[2]

\* The pair a PUSH / POP opcode names in its rp field
PushPopPair(rp) ==
    CASE rp = 0 -> "BC" [] rp = 1 -> "DE" [] rp = 2 -> "HL" [] rp = 3 -> "PSW"

\* C8: opcode 11rp0101 executes push_reg16 and opcode 11rp0001 executes
\* pop_reg16 on BC, DE, HL, PSW for rp = 0, 1, 2, 3; so POP D leaves PC just
\* past the opcode and PUSH PSW / POP PSW act on Acc and Flag.
C8_PushPopDecode ==
    Did("execute") =>
        LET i == Opcode(Last.pre)
            rp == (i \div 16) % 4
        IN  /\ (i >= 192 /\ i % 16 = 5) =>
                  Console = push_reg16(Latched(Last.pre), PushPopPair(rp))
            /\ (i >= 192 /\ i % 16 = 1) =>
                  Console = pop_reg16(Latched(Last.pre), PushPopPair(rp))

----------------------------------------------------------------------------
(* Claims settled under SpecRun and FairSpecRun                            *)

\* C4: run() returns exactly when HLT (0x76) has been executed: only
\* executing 0x76 sets halted, once halted is set run() takes no further
\* step but its return, so registers and memory no longer change, and PC
\* stays just past the HLT byte.
C4_RunHalts ==
    [][ /\ (runpc = "loop" /\ ~halted /\ fault' = "none") =>
              (halted' <=> Opcode(Console) = 118)
        /\ (~halted /\ halted') =>
              /\ runpc = "loop"
              /\ code_reg_as_u8(Console, "Inst")' = 118
              /\ PC' = (PC + 1) % 65536
        /\ (runpc = "loop" /\ halted) =>
              /\ runpc' = "returned"
              /\ regs' = regs
              /\ ram' = ram
              /\ halted'
        /\ (runpc' = "returned") =>
              /\ halted'
              /\ RamCell(ram', (PC' + 65535) % 65536) = 118
      ]_vars

\* run() has returned from the LXI / MOV / STA / HLT program
C4_Witness == runpc = "returned" /\ halted /\ image = "lxi_sta" /\ PC = 8

\* C5: run() terminates when started on a console with an empty register map
\* whose memory holds i mod 256 at every address i below 65535.
C5_RampRunTerminates ==
    (image = "ramp" /\ runpc = "idle" /\ regs = <<>>) ~> (runpc = "returned")

\* run() has returned on the ramp image, halted by the 0x76 at address 0x76
C5_Witness == image = "ramp" /\ runpc = "returned" /\ halted /\ PC = 119

\* C10: run() on LXI B,0x1234; MOV A,B; STA 0x0010; HLT (01 34 12 78 32 10
\* 00 76) from a zeroed console halts with memory[0x0010] = 0x12.
C10_LxiMovSta ==
    (image = "lxi_sta" /\ runpc = "returned") => RamCell(ram, 16) = 18

\* C11: run() on MVI A,0x3C; ADI 0xC4; HLT (3E 3C C6 C4 76) from a zeroed
\* console halts with Acc = 0x00 and the Flag register decoding to exactly
\* {Carry, Zero, Parity, AuxiliaryCarry}.
C11_MviAdi ==
    (image = "mvi_adi" /\ runpc = "returned") =>
        /\ code_reg_as_u8(Console, "Acc") = 0
        /\ flag_status(Console) = {"Carry", "Zero", "Parity", "AuxiliaryCarry"}

\* run() has returned from the MVI / ADI / HLT program
C11_Witness == image = "mvi_adi" /\ runpc = "returned" /\ halted /\ PC = 5

----------------------------------------------------------------------------
(* SpecAlu: one ALU micro-sequence called on a console whose Flag register *)
(* holds any byte                                                          *)

I8080AluCode ==
    {"Add", "AddCarried", "Sub", "SubBorrowed", "Increment", "Decrement",
     "DecimalAdjust", "LogicAnd", "LogicOr", "LogicXor", "RotateLeft",
     "RotateRight", "RotateLeftThroughCarry", "RotateRightThroughCarry",
     "ComplementAcc"}

\* The micro-sequences called in a row on one console
MaxAluCalls == 1

\* Contents of the Flag register, among them bytes no ALU write produces
AluFlags == {0, 40, 87, 253, 255}

\* The registers passed as rhs
AluRegs == {"B", "Acc", "Flag"}

\* PC = 0x1234, HL = 0x4100, BC = 0x1234, Acc = 0x3C
AluRegFile ==
    RegInsert(WithPair(WithPair(WithPair(<<>>, "PC", 4660), "HL", 16640),
                       "BC", 4660), "Acc", 60)

InitAlu ==
    \/ Built(AluRegFile, RamRamp, "ramp")
    \/ \E f \in AluFlags : Built(RegInsert(AluRegFile, "Flag", f), RamRamp, "ramp")

AluCanCall == fault = "none" /\ runpc = "idle" /\ Len(trail) < MaxAluCalls

AluWithReg ==
    /\ AluCanCall
    /\ \E alu \in I8080AluCode, rhs \in AluRegs :
          Call("alu_with_reg", <<alu, rhs>>, alu_with_reg(Console, alu, rhs))

AluWithRegToReg ==
    /\ AluCanCall
    /\ \E alu \in I8080AluCode, rhs \in AluRegs :
          Call("alu_with_reg_to_reg", <<alu, rhs>>,
               alu_with_reg_to_reg(Console, alu, rhs))

AluWithMem ==
    /\ AluCanCall
    /\ \E alu \in I8080AluCode :
          Call("alu_with_mem", <<alu, "">>, alu_with_mem(Console, alu))

AluWithMemToMem ==
    /\ AluCanCall
    /\ \E alu \in I8080AluCode :
          Call("alu_with_mem_to_mem", <<alu, "">>,
               alu_with_mem_to_mem(Console, alu))

AluWithImmediate ==
    /\ AluCanCall
    /\ \E alu \in I8080AluCode :
          Call("alu_with_immediate", <<alu, "">>,
               alu_with_immediate(Console, alu))

CmpWithReg ==
    /\ AluCanCall
    /\ \E rhs \in AluRegs :
          Call("cmp_with_reg", <<"Sub", rhs>>, cmp_with_reg(Console, rhs))

CmpWithMem ==
    /\ AluCanCall
    /\ Call("cmp_with_mem", <<"Sub", "">>, cmp_with_mem(Console))

CmpWithImmediate ==
    /\ AluCanCall
    /\ Call("cmp_with_immediate", <<"Sub", "">>, cmp_with_immediate(Console))

NextAlu ==
    \/ AluWithReg
    \/ AluWithRegToReg
    \/ AluWithMem
    \/ AluWithMemToMem
    \/ AluWithImmediate
    \/ CmpWithReg
    \/ CmpWithMem
    \/ CmpWithImmediate

SpecAlu == InitAlu /\ [][NextAlu]_vars

\* The ALU micro-sequences of I8080Console
AluSequences ==
    {"alu_with_reg", "alu_with_reg_to_reg", "alu_with_mem",
     "alu_with_mem_to_mem", "alu_with_immediate", "cmp_with_reg",
     "cmp_with_mem", "cmp_with_immediate"}

\* Bit 1 of the byte is set and bits 3 and 5 are clear
FlagFixedBits(f) == Bit(f, 1) = 1 /\ Bit(f, 3) = 0 /\ Bit(f, 5) = 0

----------------------------------------------------------------------------
(* SpecFn: the free functions and value methods of alu.rs and of the flag  *)
(* byte, each applied to operands drawn from all bytes                     *)

\* f(arg) returns val; `of` is the call whose result it was given, if any
Returns(fn, arg, val) ==
    /\ retval' = [fn |-> fn, arg |-> arg, val |-> val, of |-> retval]
    /\ UNCHANGED <<regs, ram, data_bus, address_bus, halted, fault, image,
                   runpc, turns, trail, args>>

\* No console is involved: the console variables rest at their defaults
NoConsole ==
    /\ regs = <<>>
    /\ ram = RamDefault
    /\ data_bus = 0
    /\ address_bus = 0
    /\ halted = FALSE
    /\ fault = "none"
    /\ image = "none"
    /\ runpc = "idle"
    /\ turns = 0
    /\ trail = <<>>

InitFn ==
    /\ NoConsole
    /\ args \in [lhs : Byte, rhs : Byte]
    /\ retval = NotCalled

\* The four Adder values
Adders == {adder, subber, carried_adder, borrowed_subber}

\* The Rotator values: both directions, plain and through either carry
Rotators ==
    {rotate_left, rotate_right}
    \cup {carried(through_carry(r), c) : r \in {rotate_left, rotate_right},
                                        c \in BOOLEAN}

\* The lhs values given to an operation that ignores lhs
IgnoredLhs == {0, 255}

\* alu.op(lhs, rhs) for an Adder
AdderOp ==
    /\ retval = NotCalled
    /\ \E alu \in Adders :
          Returns("Adder::op", <<alu, args.lhs, args.rhs>>,
                  Adder_op(alu, args.lhs, args.rhs))

\* DecimalAdjuster::from_status(status).op(0, res) on what adder() returned
DecimalAdjusterOp ==
    /\ retval.fn = "Adder::op"
    /\ retval.arg[1] = adder
    /\ LET alu == from_status(retval.val[2])
       IN  Returns("DecimalAdjuster::op", <<alu, 0, retval.val[1]>>,
                   DecimalAdjuster_op(alu, 0, retval.val[1]))

\* StatusFlag::set_by_result(rhs)
SetByResult ==
    /\ retval = NotCalled
    /\ args.lhs = 0
    /\ Returns("set_by_result", args.rhs, set_by_result(args.rhs))

\* alu.op(lhs, rhs) for a Rotator
RotatorOp ==
    /\ retval = NotCalled
    /\ args.lhs \in IgnoredLhs
    /\ \E alu \in Rotators :
          Returns("Rotator::op", <<alu, args.lhs, args.rhs>>,
                  Rotator_op(alu, args.lhs, args.rhs))

\* flag_collect of a byte: rhs, or the byte flag_scramble returned
FlagCollect ==
    \/ /\ retval = NotCalled
       /\ args.lhs = 0
       /\ Returns("flag_collect", args.rhs, flag_collect(args.rhs))
    \/ /\ retval.fn = "flag_scramble"
       /\ retval.of = NotCalled
       /\ Returns("flag_collect", retval.val, flag_collect(retval.val))

\* flag_scramble of a flag set: any set, or the set flag_collect returned
FlagScramble ==
    \/ /\ retval = NotCalled
       /\ args.lhs = 0
       /\ args.rhs = 0
       /\ \E status \in SUBSET StatusFlag :
             Returns("flag_scramble", status, flag_scramble(status))
    \/ /\ retval.fn = "flag_collect"
       /\ retval.of = NotCalled
       /\ Returns("flag_scramble", retval.val, flag_scramble(retval.val))

NextFn ==
    \/ AdderOp
    \/ DecimalAdjusterOp
    \/ SetByResult
    \/ RotatorOp
    \/ FlagCollect
    \/ FlagScramble

SpecFn == InitFn /\ [][NextFn]_vars

----------------------------------------------------------------------------
(* Claims settled under SpecFn                                             *)

\* C13: flag_scramble(flag_collect(x)) = x for every byte x of the form
\* (b | 2) & ~0x28, and flag_collect(flag_scramble(s)) = s for every set s
\* of status flags.
C13_FlagRoundTrip ==
    /\ ( /\ retval.fn = "flag_scramble"
         /\ retval.of # NotCalled
         /\ \E b \in Byte : retval.of.arg = BitAnd(BitOr(b, 2), 215) ) =>
            retval.val = retval.of.arg
    /\ ( /\ retval.fn = "flag_collect"
         /\ retval.of # NotCalled ) =>
            retval.val = retval.of.arg

\* flag_scramble has been given what flag_collect made of 0xD7
C13_Witness ==
    /\ retval.fn = "flag_scramble"
    /\ retval.of # NotCalled
    /\ retval.of.arg = 215
    /\ retval.val = 215

\* A byte whose two nibbles are decimal digits, and the number it encodes
IsBcd(x) == x \div 16 < 10 /\ x % 16 < 10

DecodeBcd(x) == (x \div 16) * 10 + (x % 16)

\* C14: for decimal ld, rd in 0..99 with BCD encodings x, y, adjusting what
\* Adder::adder().op(x, y) returned with DecimalAdjuster::from_status(flags)
\* gives a valid BCD byte decoding to (ld + rd) mod 100, and Carry iff
\* ld + rd >= 100.
C14_DaaRoundTrip ==
    ( /\ retval.fn = "DecimalAdjuster::op"
      /\ IsBcd(args.lhs)
      /\ IsBcd(args.rhs) ) =>
        LET sum == DecodeBcd(args.lhs) + DecodeBcd(args.rhs)
        IN  /\ IsBcd(retval.val[1])
            /\ DecodeBcd(retval.val[1]) = sum % 100
            /\ "Carry" \in retval.val[2] <=> sum >= 100

\* 99 + 99 has been adjusted to 98 with Carry
C14_Witness ==
    /\ retval.fn = "DecimalAdjuster::op"
    /\ args.lhs = 153
    /\ args.rhs = 153
    /\ retval.val[1] = 152
    /\ "Carry" \in retval.val[2]

\* C15: for all bytes lhs, rhs the result byte of Adder::adder().op(lhs, rhs)
\* is (lhs + rhs) mod 256.
C15_AdderResult ==
    (retval.fn = "Adder::op" /\ retval.arg[1] = adder) =>
        retval.val[1] = (args.lhs + args.rhs) % 256

\* adder() has added two bytes whose sum wraps
C15_Witness ==
    /\ retval.fn = "Adder::op"
    /\ retval.arg = <<adder, 200, 100>>
    /\ retval.val[1] = 44

\* C16: for all bytes lhs, rhs the result byte of Adder::subber().op(lhs,
\* rhs) is (lhs - rhs) mod 256.
C16_SubberResult ==
    (retval.fn = "Adder::op" /\ retval.arg[1] = subber) =>
        retval.val[1] = (args.lhs + 256 - args.rhs) % 256

\* subber() has subtracted a larger byte from a smaller one
C16_Witness ==
    /\ retval.fn = "Adder::op"
    /\ retval.arg = <<subber, 16, 19>>
    /\ retval.val[1] = 253

\* C17: for every byte r, set_by_result(r) contains Zero iff r = 0, Sign iff
\* r >= 0x80, and Parity iff the number of 1 bits of r is even.
C17_SetByResult ==
    retval.fn = "set_by_result" =>
        LET r == retval.arg
            ones == Cardinality({i \in 0..7 : Bit(r, i) = 1})
        IN  /\ "Zero" \in retval.val <=> r = 0
            /\ "Sign" \in retval.val <=> r >= 128
            /\ "Parity" \in retval.val <=> ones % 2 = 0
            /\ retval.val \subseteq {"Zero", "Sign", "Parity"}

\* set_by_result has been given 0x80, the least signed byte
C17_Witness ==
    /\ retval.fn = "set_by_result"
    /\ retval.arg = 128
    /\ retval.val = {"Sign"}

\* C20: for every byte t, rotate_left returns ((t << 1) mod 256) | (t >> 7),
\* through carry the inserted low bit is the carry-in c instead;
\* rotate_right returns (t >> 1) | ((t & 1) << 7), through carry
\* (t >> 1) | (c << 7); the flag set is {Carry} if the bit rotated out (bit 7
\* for left, bit 0 for right) was 1 and empty otherwise.
C20_Rotator ==
    retval.fn = "Rotator::op" =>
        LET alu == retval.arg[1]
            t == retval.arg[3]
            c == IF alu.carry THEN 1 ELSE 0
            out == IF alu.rotate_right THEN t % 2 ELSE t \div 128
            low == IF alu.through_carry THEN c ELSE out
        IN  /\ retval.val[1] = IF alu.rotate_right
                               THEN (t \div 2) + low * 128
                               ELSE ((t * 2) % 256) + low
            /\ retval.val[2] = IF out = 1 THEN {"Carry"} ELSE {}

\* 0x33 has been rotated right through a set carry
C20_Witness ==
    /\ retval.fn = "Rotator::op"
    /\ retval.arg = <<carried(through_carry(rotate_right), TRUE), 0, 51>>
    /\ retval.val = <<153, {"Carry"}>>

----------------------------------------------------------------------------
(* SpecFlash: RamB8A16::flash of short images at offsets up to 0xFFFF      *)

\* The longest image flashed
MaxFlashLen == 3

FlashBytes == {85, 170}

\* The images: every sequence of FlashBytes up to MaxFlashLen long
FlashData == UNION {[1..n -> FlashBytes] : n \in 0..MaxFlashLen}

\* The offsets: the start of memory and the last addresses of a u16
FlashOffsets == {0, 1, 256, 65533, 65534, 65535}

InitFlash ==
    \/ Built(<<>>, RamDefault, "zero")
    \/ Built(<<>>, RamRamp, "ramp")

\* memory.flash(data, displacement)
Flash ==
    /\ trail = <<>>
    /\ \E data \in FlashData, displacement \in FlashOffsets :
          Call("flash", <<data, displacement>>,
               [Console EXCEPT !.ram = flash(ram, data, displacement)])

NextFlash == Flash

SpecFlash == InitFlash /\ [][NextFlash]_vars

\* C18: flash(data, offset) writes data[i] to memory address
\* (offset + i) mod 65536 for every index i, so an image running past 0xFFFF
\* occupies 0xFFFF and wraps to address 0; addresses not covered are
\* unchanged.
C18_FlashWraps ==
    Did("flash") =>
        LET data == Last.arg[1]
            offset == Last.arg[2]
            covered == {(offset + (i - 1)) % 65536 : i \in 1..Len(data)}
        IN  /\ \A i \in 1..Len(data) :
                  LET a == (offset + (i - 1)) % 65536
                  IN  a < RamSize /\ RamCell(ram, a) = data[i]
            /\ ram.base = Last.pre.ram.base
            /\ \A a \in (DOMAIN ram.cells) \ covered :
                  RamCell(ram, a) = RamCell(Last.pre.ram, a)

----------------------------------------------------------------------------
(* SpecPair: register.rs, Register8Pair as a value [h, l], loaded with     *)
(* every 16-bit word                                                       *)

\* Register8Pair::new
Register8Pair_new(h, l) == [h |-> h, l |-> l]

\* impl Register for Register8Pair: read
Register8Pair_read(pair) == from_be_bytes(pair.h, pair.l)

\* load storing the low byte of the word in the high cell (the fault C19 is
\* checked against)
Register8Pair_load_swapped(pair, bits) ==
    [h |-> to_be_bytes(bits)[2], l |-> to_be_bytes(bits)[1]]

\* impl Register for Register8Pair: load; the pair given is consumed
Register8Pair_load(pair, bits) ==
    [h |-> to_be_bytes(bits)[1], l |-> to_be_bytes(bits)[2]]

\* The cells a pair is built from before it is loaded
PairCells == {<<10, 32>>, <<255, 255>>}

InitPair ==
    /\ NoConsole
    /\ args \in [bits : Word]
    /\ retval = NotCalled

PairNew ==
    /\ retval = NotCalled
    /\ \E c \in PairCells :
          Returns("Register8Pair::new", c, Register8Pair_new(c[1], c[2]))

PairLoad ==
    /\ retval.fn = "Register8Pair::new"
    /\ Returns("Register8Pair::load", <<retval.val, args.bits>>,
               Register8Pair_load(retval.val, args.bits))

PairRead ==
    /\ retval.fn = "Register8Pair::load"
    /\ Returns("Register8Pair::read", retval.val, Register8Pair_read(retval.val))

NextPair == PairNew \/ PairLoad \/ PairRead

SpecPair == InitPair /\ [][NextPair]_vars

\* C19: for every 16-bit word w, a register pair read right after load(w)
\* returns w, its high cell holding w >> 8 and its low cell w & 0xFF.
C19_PairRoundTrip ==
    retval.fn = "Register8Pair::read" =>
        /\ retval.val = args.bits
        /\ retval.arg.h = args.bits \div 256
        /\ retval.arg.l = args.bits % 256

\* A pair built from 10 and 32 has been loaded with 0x1234 and read
C19_Witness ==
    /\ retval.fn = "Register8Pair::read"
    /\ args.bits = 4660
    /\ retval.of.arg[1] = Register8Pair_new(10, 32)
    /\ retval.arg = Register8Pair_new(18, 52)
    /\ retval.val = 4660

----------------------------------------------------------------------------
(* SpecFlagOps: flag_set and flag_complement called on a console           *)

\* The Flag bytes the console starts with: -1 stands for a register map in
\* which Flag has not been touched yet
FlagOpsFlags == {-1, 0, 2, 70, 87, 168, 215, 255}

\* A console over the ramp image; `full` loads every architectural register
FlagOpsRegs(f, full) ==
    LET rs == IF full THEN ExecRegs(256, 8192)
              ELSE WithPair(WithPair(<<>>, "PC", 256), "SP", 8192)
    IN  IF f = -1 THEN RegRemove(rs, "Flag") ELSE RegInsert(rs, "Flag", f)

InitFlagOps ==
    \E f \in FlagOpsFlags, full \in BOOLEAN :
        Built(FlagOpsRegs(f, full), RamRamp, "ramp")

FlagSet ==
    /\ CanCall
    /\ \E f \in StatusFlag : Call("flag_set", f, flag_set(Console, f))

FlagComplement ==
    /\ CanCall
    /\ \E f \in StatusFlag :
          Call("flag_complement", f, flag_complement(Console, f))

NextFlagOps == FlagSet \/ FlagComplement

SpecFlagOps == InitFlagOps /\ [][NextFlagOps]_vars

\* Between console s and console t only Flag may differ: every other
\* register reads the same and memory is the same
OnlyFlagChanged(s, t) ==
    /\ SameRegsExcept(s, t, {"Flag"})
    /\ RamEq(s.ram, t.ram)

\* C21: flag_set(f) sets exactly the Flag bit flag_decode(f) and
\* flag_complement(f) toggles exactly that bit; every other Flag bit, every
\* other register and memory are unchanged, so flag_complement(f) applied
\* twice restores the Flag register.
C21_FlagSetComplement ==
    /\ Did("flag_set") =>
          /\ fault = "none"
          /\ code_reg_as_u8(Console, "Flag")
                = BitOr(code_reg_as_u8(Last.pre, "Flag"), flag_decode(Last.arg))
          /\ OnlyFlagChanged(Console, Last.pre)
    /\ Did("flag_complement") =>
          /\ fault = "none"
          /\ code_reg_as_u8(Console, "Flag")
                = BitXor(code_reg_as_u8(Last.pre, "Flag"), flag_decode(Last.arg))
          /\ OnlyFlagChanged(Console, Last.pre)
    /\ ( /\ Len(trail) = 2
         /\ Before.op = "flag_complement"
         /\ Last.op = "flag_complement"
         /\ Before.arg = Last.arg ) =>
          code_reg_as_u8(Console, "Flag") = code_reg_as_u8(Before.pre, "Flag")

\* flag_complement(Carry) has been applied twice to a Flag byte that had
\* Carry and other bits set: the bit went off and came back
C21_Witness ==
    /\ Len(trail) = 2
    /\ Before.op = "flag_complement"
    /\ Last.op = "flag_complement"
    /\ Before.arg = "Carry"
    /\ Last.arg = "Carry"
    /\ code_reg_as_u8(Before.pre, "Flag") = 215
    /\ code_reg_as_u8(Last.pre, "Flag") = 214
    /\ code_reg_as_u8(Console, "Flag") = 215

----------------------------------------------------------------------------
(* SpecMasked: a MaskedRegister over one Register8 cell                    *)

\* The masks of the views: none, single bits, the test's masks, mixed, all
MaskedMasks == {0, 1, 4, 15, 16, 51, 64, 85, 102, 128, 170, 213, 240, 254, 255}

\* The bytes loaded through a view
MaskedBits == {0, 68, 85, 170, 255}

InitMasked ==
    /\ NoConsole
    /\ args \in [cell : Byte, mask : MaskedMasks, bits : MaskedBits]
    /\ retval = NotCalled

\* Register8::new(cell).masked(mask).read()
MaskedRead ==
    /\ retval = NotCalled
    /\ Returns("MaskedRegister::read", args, masked_read(args.cell, args.mask))

\* Register8::new(cell).masked(mask).load(bits).unmasked().read()
MaskedLoad ==
    /\ retval = NotCalled
    /\ Returns("MaskedRegister::load", args,
               masked_load(args.cell, args.mask, args.bits))

NextMasked == MaskedRead \/ MaskedLoad

SpecMasked == InitMasked /\ [][NextMasked]_vars

\* C22: for every cell value c, mask m and byte v, a masked view reads
\* c & m, and load(v) through the view leaves the cell equal to
\* (v & m) | (c & !m): bit by bit, a bit inside the mask is read from the
\* cell and loaded from v, a bit outside the mask reads 0 and is never
\* changed.
C22_MaskedView ==
    /\ retval.fn = "MaskedRegister::read" =>
          /\ retval.val \in Byte
          /\ \A i \in 0..7 :
                Bit(retval.val, i)
                  = IF Bit(retval.arg.mask, i) = 1 THEN Bit(retval.arg.cell, i)
                    ELSE 0
    /\ retval.fn = "MaskedRegister::load" =>
          /\ retval.val \in Byte
          /\ \A i \in 0..7 :
                Bit(retval.val, i)
                  = IF Bit(retval.arg.mask, i) = 1 THEN Bit(retval.arg.bits, i)
                    ELSE Bit(retval.arg.cell, i)

\* The second step of test reg8_flag_reg: a cell holding 0x11, viewed
\* through 0x66 and loaded with 0x44, holds 0x55
C22_Witness ==
    /\ retval.fn = "MaskedRegister::load"
    /\ retval.arg = [cell |-> 17, mask |-> 102, bits |-> 68]
    /\ retval.val = 85

----------------------------------------------------------------------------
(* SpecDirect: the direct-addressing micro-sequences called on a console   *)
(* whose PC points at two operand bytes                                    *)

\* The operand bytes <<first, second>>: the test's 0x0302, 0x1234, 0x00FF
\* (the second cell of a word lies in the next page), 0x3333, and the last
\* two addresses of the address space
DirectOperands ==
    {<<2, 3>>, <<52, 18>>, <<255, 0>>, <<51, 51>>, <<254, 255>>, <<255, 255>>}

DirectPC == {2, 4660}

\* The ramp image with the operand bytes flashed twice at pc, so that two
\* calls in a row read the same operands
DirectImage(pc, b) == flash(RamRamp, <<b[1], b[2], b[1], b[2]>>, pc)

\* The 8-bit registers given as dst or src
DirectRegs == {"Acc", "B", "H"}

InitDirect ==
    \E pc \in DirectPC, b \in DirectOperands :
        \/ Built(WithPair(WithPair(<<>>, "PC", pc), "SP", 8192),
                 DirectImage(pc, b), "operands")
        \/ Built(ExecRegs(pc, 8192), DirectImage(pc, b), "operands")

MoveRegDirect ==
    /\ CanCall
    /\ \E dst \in DirectRegs :
          Call("move_reg_direct", dst, move_reg_direct(Console, dst))

StoreRegDirect ==
    /\ CanCall
    /\ \E src \in DirectRegs :
          Call("store_reg_direct", src, store_reg_direct(Console, src))

MoveReg16Direct ==
    /\ CanCall
    /\ Call("move_reg16_direct", "HL", move_reg16_direct(Console, "HL"))

StoreReg16Direct ==
    /\ CanCall
    /\ Call("store_reg16_direct", "HL", store_reg16_direct(Console, "HL"))

NextDirect ==
    \/ MoveRegDirect
    \/ StoreRegDirect
    \/ MoveReg16Direct
    \/ StoreReg16Direct

SpecDirect == InitDirect /\ [][NextDirect]_vars

\* The cells of the architectural registers Acc, B, C, D, E, H, L, Flag, SP
Architectural == {"Acc", "B", "C", "D", "E", "H", "L", "Flag", "SpH", "SpL"}

\* The first and second operand byte console s has at its PC, and the
\* address (second << 8) | first
Operand1(s) == RamCell(s.ram, code_reg16_as_u16(s, "PC"))

Operand2(s) == RamCell(s.ram, (code_reg16_as_u16(s, "PC") + 1) % 65536)

OperandAddress(s) == Operand2(s) * 256 + Operand1(s)

\* C23: move_reg_direct(dst) and store_reg_direct(src), when they return,
\* have read the operand bytes b1 then b2, advanced PC by 2 and accessed
\* memory at (b2 << 8) | b1: dst becomes memory[addr], respectively
\* memory[addr] becomes src and no other cell changes; no other
\* architectural register (Acc, B, C, D, E, H, L, Flag, SP) is changed.
C23_DirectAddress ==
    /\ (Did("move_reg_direct") /\ fault = "none") =>
          /\ PC = (code_reg16_as_u16(Last.pre, "PC") + 2) % 65536
          /\ address_bus = OperandAddress(Last.pre)
          /\ code_reg_as_u8(Console, Last.arg)
                = RamCell(Last.pre.ram, OperandAddress(Last.pre))
          /\ \A c \in Architectural \ {Last.arg} :
                code_reg_as_u8(Console, c) = code_reg_as_u8(Last.pre, c)
          /\ RamEq(ram, Last.pre.ram)
    /\ (Did("store_reg_direct") /\ fault = "none") =>
          /\ PC = (code_reg16_as_u16(Last.pre, "PC") + 2) % 65536
          /\ address_bus = OperandAddress(Last.pre)
          /\ RamEq(ram, RamPut(Last.pre.ram, OperandAddress(Last.pre),
                               code_reg_as_u8(Last.pre, Last.arg)))
          /\ \A c \in Architectural :
                code_reg_as_u8(Console, c) = code_reg_as_u8(Last.pre, c)

\* With operand bytes 0xFF, 0x00 both times, B was stored at 0x00FF and Acc
\* was then loaded from 0x00FF
C23_Witness ==
    /\ Len(trail) = 2
    /\ Before.op = "store_reg_direct"
    /\ Before.arg = "B"
    /\ Last.op = "move_reg_direct"
    /\ Last.arg = "Acc"
    /\ Operand1(Before.pre) = 255
    /\ Operand2(Before.pre) = 0
    /\ code_reg_as_u8(Before.pre, "B") = 18
    /\ code_reg_as_u8(Before.pre, "Acc") = 86
    /\ fault = "none"
    /\ RamCell(ram, 255) = 18
    /\ code_reg_as_u8(Console, "Acc") = 18

\* C24: store_reg16_direct(HL) is symmetric with move_reg16_direct(HL): with
\* operand bytes b1, b2 and a = (b2 << 8) | b1, SHLD writes L to memory[a]
\* and H to memory[a+1], LHLD loads L from memory[a] and H from memory[a+1],
\* so SHLD followed by LHLD with the same two operand bytes leaves HL
\* unchanged.
C24_ShldLhld ==
    /\ (Did("store_reg16_direct") /\ fault = "none") =>
          /\ RamCell(ram, OperandAddress(Last.pre))
                = code_reg_as_u8(Last.pre, "L")
          /\ RamCell(ram, (OperandAddress(Last.pre) + 1) % 65536)
                = code_reg_as_u8(Last.pre, "H")
    /\ (Did("move_reg16_direct") /\ fault = "none") =>
          /\ code_reg_as_u8(Console, "L")
                = RamCell(Last.pre.ram, OperandAddress(Last.pre))
          /\ code_reg_as_u8(Console, "H")
                = RamCell(Last.pre.ram, (OperandAddress(Last.pre) + 1) % 65536)
    /\ ( /\ Len(trail) = 2
         /\ Before.op = "store_reg16_direct"
         /\ Last.op = "move_reg16_direct"
         /\ Operand1(Before.pre) = Operand1(Last.pre)
         /\ Operand2(Before.pre) = Operand2(Last.pre)
         /\ fault = "none" ) =>
          code_reg16_as_u16(Console, "HL") = code_reg16_as_u16(Before.pre, "HL")

----------------------------------------------------------------------------
(* Claims about single opcodes of the op = 0 group, settled under SpecExec *)

\* execute() has returned; the opcode it found was op
Executed(op) == Did("execute") /\ fault = "none" /\ Opcode(Last.pre) = op

\* The value of register c before the last call, and the Carry bit then
Old(c) == code_reg_as_u8(Last.pre, c)

OldCarry == Bit(Old("Flag"), 0)

\* C25: opcodes 0x02 (STAX B) and 0x12 (STAX D) write Acc to memory[BC] and
\* memory[DE] and leave Acc unchanged; opcodes 0x0A (LDAX B) and 0x1A
\* (LDAX D) load Acc from memory[BC] and memory[DE] and leave memory
\* unchanged.
C25_StaxLdax ==
    \A rp \in {"BC", "DE"} :
        LET a == code_reg16_as_u16(Last.pre, rp)
            stax == IF rp = "BC" THEN 2 ELSE 18
            ldax == IF rp = "BC" THEN 10 ELSE 26
        IN  /\ Executed(stax) =>
                  /\ RamEq(ram, RamPut(Last.pre.ram, a, Old("Acc")))
                  /\ code_reg_as_u8(Console, "Acc") = Old("Acc")
            /\ Executed(ldax) =>
                  /\ code_reg_as_u8(Console, "Acc") = RamCell(Last.pre.ram, a)
                  /\ RamEq(ram, Last.pre.ram)

\* C26: for rp in 0..3 selecting BC, DE, HL, SP, opcode 00rp0011 (INX) adds
\* 1 to the pair and opcode 00rp1011 (DCX) subtracts 1 from it, both modulo
\* 65536, changing neither the Flag register nor any other register (PC and
\* the latched opcode aside); so INX followed by DCX restores the pair.
C26_InxDcx ==
    \A n \in 0..3 :
        LET pair == reg16_code_from_bits(n)
            old == code_reg16_as_u16(Last.pre, pair)
            others == {"PcH", "PcL", "Inst", split(pair)[1], split(pair)[2]}
        IN  /\ Executed(n * 16 + 3) =>
                  /\ code_reg16_as_u16(Console, pair) = (old + 1) % 65536
                  /\ SameRegsExcept(Console, Last.pre, others)
            /\ Executed(n * 16 + 11) =>
                  /\ code_reg16_as_u16(Console, pair) = (old + 65535) % 65536
                  /\ SameRegsExcept(Console, Last.pre, others)

\* C27: with c the Carry bit of Flag before the instruction, opcode 0x17
\* (RAL) sets Acc to ((Acc << 1) mod 256) | c and Carry to the old bit 7 of
\* Acc; opcode 0x1F (RAR) sets Acc to (Acc >> 1) | (c << 7) and Carry to the
\* old bit 0 of Acc; 0x07 (RLC) and 0x0F (RRC) are the plain left and right
\* rotates.
C27_Rotates ==
    LET acc == code_reg_as_u8(Console, "Acc")
        carry == Bit(code_reg_as_u8(Console, "Flag"), 0)
    IN  /\ Executed(23) =>
              /\ acc = ((Old("Acc") * 2) % 256) + OldCarry
              /\ carry = Bit(Old("Acc"), 7)
        /\ Executed(31) =>
              /\ acc = (Old("Acc") \div 2) + (OldCarry * 128)
              /\ carry = Bit(Old("Acc"), 0)
        /\ Executed(7) =>
              acc = ((Old("Acc") * 2) % 256) + Bit(Old("Acc"), 7)
        /\ Executed(15) =>
              acc = (Old("Acc") \div 2) + (Bit(Old("Acc"), 0) * 128)

----------------------------------------------------------------------------
(* SpecJump: jump_immediate, call_immediate and ret, under every condition, *)
(* and exchange_stack_top_with_hl, called on a console over the ramp image *)

\* Calls made on one console
MaxJumpCalls == 1

\* The Flag bytes: -1 for a Flag not touched yet, no flag set, Zero Parity
\* Carry AuxiliaryCarry, Sign Parity, Sign Carry, every flag
JumpFlags == {-1, 2, 87, 134, 131, 215}

\* PC values: the operands lie low, in the middle, and in the last cells
JumpPC == {2, 4660, 65532, 65534}

\* SP values: the stack lies in the middle, at the bottom and at the top of
\* the address space
JumpSP == {8192, 0, 1, 65533, 65534}

InitJump ==
    \E pc \in JumpPC, sp \in JumpSP, f \in JumpFlags :
        LET rs == ExecRegs(pc, sp)
        IN  Built(IF f = -1 THEN RegRemove(rs, "Flag")
                  ELSE RegInsert(rs, "Flag", f), RamRamp, "ramp")

JumpCanCall == CanCall /\ Len(trail) < MaxJumpCalls

JumpImmediate ==
    /\ JumpCanCall
    /\ \E cond \in I8080JumpCondition :
          Call("jump_immediate", cond, jump_immediate(Console, cond))

CallImmediate ==
    /\ JumpCanCall
    /\ \E cond \in I8080JumpCondition :
          Call("call_immediate", cond, call_immediate(Console, cond))

Ret ==
    /\ JumpCanCall
    /\ \E cond \in I8080JumpCondition : Call("ret", cond, ret(Console, cond))

ExchangeStackTopWithHl ==
    /\ JumpCanCall
    /\ Call("exchange_stack_top_with_hl", "",
            exchange_stack_top_with_hl(Console))

NextJump == JumpImmediate \/ CallImmediate \/ Ret \/ ExchangeStackTopWithHl

SpecJump == InitJump /\ [][NextJump]_vars

\* The call op has returned
Returned(op) == Did(op) /\ fault = "none"

\* Whether the condition of the last call was satisfied when it was made, as
\* the claims state it: for condition bits n in 0..7 (NZ, Z, NC, C, PO, PE,
\* P, M) the Flag bit of Zero (6), Carry (0), Parity (2), Sign (7) is clear
\* for even n and set for odd n; Anytime always
Taken ==
    \/ Last.arg = "Anytime"
    \/ \E n \in 0..7 :
          /\ Last.arg = condition_code_from_bits(n)
          /\ Bit(Old("Flag"), <<6, 0, 2, 7>>[(n \div 2) + 1]) = n % 2

\* PC and SP before the last call, and the address just past its operands
OldPC == code_reg16_as_u16(Last.pre, "PC")

OldSP == code_reg16_as_u16(Last.pre, "SP")

PastOperands == (OldPC + 2) % 65536

\* C28: a taken call_immediate leaves SP two less than before (mod 65536),
\* with memory[SP+1] holding the high byte and memory[SP] the low byte of
\* the return address (the PC just past the two operand bytes), and PC equal
\* to the operand address (second_byte << 8) | first_byte.
C28_CallPushes ==
    (Returned("call_immediate") /\ Taken) =>
        /\ SP = (OldSP + 65534) % 65536
        /\ RamCell(ram, (SP + 1) % 65536) = to_be_bytes(PastOperands)[1]
        /\ RamCell(ram, SP) = to_be_bytes(PastOperands)[2]
        /\ PC = OperandAddress(Last.pre)

\* C29: jump_immediate(cond), when it returns, has consumed two operand
\* bytes; PC is (second_byte << 8) | first_byte if cond is satisfied and the
\* address just past the operands otherwise, where Anytime is always
\* satisfied and condition bits 0..7 mean NZ, Z, NC, C, PO, PE, P, M, each
\* satisfied iff the Flag bit for (Zero, Carry, Parity, Sign) equals
\* (false, true) alternately; SP, memory, Acc, Flag and B..L are unchanged.
C29_JumpImmediate ==
    Returned("jump_immediate") =>
        /\ PC = IF Taken THEN OperandAddress(Last.pre) ELSE PastOperands
        /\ code_reg_as_u8(Console, "Z") = Operand1(Last.pre)
        /\ code_reg_as_u8(Console, "W") = Operand2(Last.pre)
        /\ \A c \in Architectural : code_reg_as_u8(Console, c) = Old(c)
        /\ RamEq(ram, Last.pre.ram)

\* jump_immediate(OnMinus) was taken with Sign set: from PC = 0x1234, whose
\* operand bytes are 0x34, 0x35, to 0x3534
C29_Witness ==
    /\ Returned("jump_immediate")
    /\ Last.arg = "OnMinus"
    /\ Old("Flag") = 134
    /\ OldPC = 4660
    /\ PC = 13620

\* C30: when the condition is not satisfied, call_immediate(cond) still
\* advances PC past both operand bytes but leaves SP and memory unchanged,
\* and ret(cond) leaves PC, SP and memory unchanged; when satisfied, ret,
\* when it returns, has set PC to (memory[SP+1] << 8) | memory[SP] and added
\* 2 to SP (mod 65536).
C30_NotTakenAndRet ==
    /\ (Returned("call_immediate") /\ ~Taken) =>
          /\ PC = PastOperands
          /\ SP = OldSP
          /\ RamEq(ram, Last.pre.ram)
    /\ (Did("ret") /\ ~Taken) =>
          /\ fault = "none"
          /\ PC = OldPC
          /\ SP = OldSP
          /\ RamEq(ram, Last.pre.ram)
    /\ (Returned("ret") /\ Taken) =>
          /\ PC = RamCell(Last.pre.ram, (OldSP + 1) % 65536) * 256
                    + RamCell(Last.pre.ram, OldSP)
          /\ SP = (OldSP + 2) % 65536
          /\ RamEq(ram, Last.pre.ram)

\* ret(OnCarry) was taken with Carry set and the stack at 0x2000 (holding
\* 0x00, 0x01), so PC = 0x0100 and SP = 0x2002
C30_Witness ==
    /\ Returned("ret")
    /\ Last.arg = "OnCarry"
    /\ Old("Flag") = 131
    /\ OldSP = 8192
    /\ PC = 256
    /\ SP = 8194

\* C31: exchange_stack_top_with_hl, when it returns, has swapped HL with the
\* word at the stack top in place: L is the old memory[SP], H the old
\* memory[SP+1], memory[SP] the old L, memory[SP+1] the old H, no other
\* cell is written, and SP and every other architectural register are
\* unchanged.
C31_Xthl ==
    Returned("exchange_stack_top_with_hl") =>
        /\ code_reg_as_u8(Console, "L") = RamCell(Last.pre.ram, OldSP)
        /\ code_reg_as_u8(Console, "H")
              = RamCell(Last.pre.ram, (OldSP + 1) % 65536)
        /\ RamEq(ram, RamPut(RamPut(Last.pre.ram, OldSP, Old("L")),
                             (OldSP + 1) % 65536, Old("H")))
        /\ SP = OldSP
        /\ \A c \in Architectural \ {"H", "L"} :
              code_reg_as_u8(Console, c) = Old(c)

\* HL = 0x4100 was exchanged with the word 0x0201 at SP = 0x0001
C31_Witness ==
    /\ Returned("exchange_stack_top_with_hl")
    /\ OldSP = 1
    /\ code_reg16_as_u16(Last.pre, "HL") = 16640
    /\ code_reg16_as_u16(Console, "HL") = 513
    /\ RamCell(ram, 1) = 0
    /\ RamCell(ram, 2) = 65

----------------------------------------------------------------------------
(* SpecArith: the add, subtract and compare micro-sequences called on a    *)
(* console with any accumulator, operand and carry                         *)

\* The bytes Acc and B start with
ArithBytes == {0, 1, 15, 16, 60, 127, 128, 196, 255}

\* The Flag bytes: Carry clear and set, with the other flags clear and set
ArithFlags == {2, 3, 214, 87}

I8080ArithCode == {"Add", "AddCarried", "Sub", "SubBorrowed"}

\* PC = 0x1234 (the immediate byte is 0x34), HL = 0x41C4 (memory[HL] is
\* 0xC4)
InitArith ==
    \E a \in ArithBytes, b \in ArithBytes, f \in ArithFlags :
        Built(RegInsert(RegInsert(RegInsert(
                  WithPair(WithPair(<<>>, "PC", 4660), "HL", 16836),
                  "B", b), "Acc", a), "Flag", f), RamRamp, "ramp")

ArithWithReg ==
    /\ AluCanCall
    /\ \E alu \in I8080ArithCode, rhs \in AluRegs :
          Call("alu_with_reg", <<alu, rhs>>, alu_with_reg(Console, alu, rhs))

ArithWithMem ==
    /\ AluCanCall
    /\ \E alu \in I8080ArithCode :
          Call("alu_with_mem", <<alu, "">>, alu_with_mem(Console, alu))

ArithWithImmediate ==
    /\ AluCanCall
    /\ \E alu \in I8080ArithCode :
          Call("alu_with_immediate", <<alu, "">>,
               alu_with_immediate(Console, alu))

NextArith ==
    \/ ArithWithReg
    \/ ArithWithMem
    \/ ArithWithImmediate
    \/ CmpWithReg
    \/ CmpWithMem
    \/ CmpWithImmediate

SpecArith == InitArith /\ [][NextArith]_vars

\* The operand byte of the last ALU micro-sequence: the register, the cell
\* at HL, or the byte at PC
ArithOperand ==
    CASE Last.op \in {"alu_with_reg", "cmp_with_reg"} -> Old(Last.arg[2])
      [] Last.op \in {"alu_with_mem", "cmp_with_mem"} ->
            RamCell(Last.pre.ram, code_reg16_as_u16(Last.pre, "HL"))
      [] OTHER -> RamCell(Last.pre.ram, OldPC)

\* C32: cmp_with_reg, cmp_with_mem and cmp_with_immediate leave Acc
\* unchanged and write into Flag exactly the byte that the corresponding Sub
\* (alu_with_reg/mem/immediate with Sub) would write for the same Acc and
\* operand; that byte is the one of Acc - operand, Carry being the borrow.
C32_CmpIsSub ==
    LET flag == code_reg_as_u8(Console, "Flag")
    IN  /\ Returned("cmp_with_reg") =>
              /\ code_reg_as_u8(Console, "Acc") = Old("Acc")
              /\ flag = code_reg_as_u8(
                            alu_with_reg(Last.pre, "Sub", Last.arg[2]), "Flag")
        /\ Returned("cmp_with_mem") =>
              /\ code_reg_as_u8(Console, "Acc") = Old("Acc")
              /\ flag = code_reg_as_u8(alu_with_mem(Last.pre, "Sub"), "Flag")
        /\ Returned("cmp_with_immediate") =>
              /\ code_reg_as_u8(Console, "Acc") = Old("Acc")
              /\ flag = code_reg_as_u8(alu_with_immediate(Last.pre, "Sub"),
                                       "Flag")
        /\ ( /\ Len(trail) > 0
             /\ Last.op \in {"cmp_with_reg", "cmp_with_mem",
                              "cmp_with_immediate"}
             /\ fault = "none" ) =>
              /\ Bit(flag, 0) = IF Old("Acc") < ArithOperand THEN 1 ELSE 0
              /\ Bit(flag, 6) = IF Old("Acc") = ArithOperand THEN 1 ELSE 0

\* cmp_with_immediate compared Acc = 0x10 with the byte 0x34: Carry is set,
\* Zero is clear and Acc is still 0x10
C32_Witness ==
    /\ Returned("cmp_with_immediate")
    /\ Old("Acc") = 16
    /\ ArithOperand = 52
    /\ code_reg_as_u8(Console, "Acc") = 16
    /\ Bit(code_reg_as_u8(Console, "Flag"), 0) = 1
    /\ Bit(code_reg_as_u8(Console, "Flag"), 6) = 0

\* C33: with c the Carry bit of Flag before the instruction, the AddCarried
\* ALU code sets Acc to (Acc + rhs + c) mod 256 with Carry set iff
\* Acc + rhs + c >= 256, and the SubBorrowed ALU code sets Acc to
\* (Acc - rhs - c) mod 256 with Carry set iff Acc < rhs + c.
C33_CarriedArith ==
    ( /\ Len(trail) > 0
      /\ Last.op \in {"alu_with_reg", "alu_with_mem", "alu_with_immediate"}
      /\ fault = "none" ) =>
        LET acc == code_reg_as_u8(Console, "Acc")
            carry == Bit(code_reg_as_u8(Console, "Flag"), 0)
            sum == Old("Acc") + ArithOperand + OldCarry
        IN  /\ Last.arg[1] = "AddCarried" =>
                  /\ acc = sum % 256
                  /\ carry = IF sum >= 256 THEN 1 ELSE 0
            /\ Last.arg[1] = "SubBorrowed" =>
                  /\ acc = (Old("Acc") + 512 - ArithOperand - OldCarry) % 256
                  /\ carry = IF Old("Acc") < ArithOperand + OldCarry THEN 1
                             ELSE 0

\* SubBorrowed with Carry set took B = 0x10 and the borrow from Acc = 0x10:
\* Acc is 0xFF and Carry is set
C33_Witness ==
    /\ Returned("alu_with_reg")
    /\ Last.arg = <<"SubBorrowed", "B">>
    /\ Old("Acc") = 16
    /\ Old("B") = 16
    /\ OldCarry = 1
    /\ code_reg_as_u8(Console, "Acc") = 255
    /\ Bit(code_reg_as_u8(Console, "Flag"), 0) = 1

----------------------------------------------------------------------------
(* Claims about the flags of Adder, settled under SpecFn                   *)

\* C34: for Adder with neg = false and carry-in cin (adder: 0,
\* carried_adder: 1), the returned flag set contains Carry iff
\* lhs + rhs + cin >= 256 and AuxiliaryCarry iff
\* (lhs & 0xF) + (rhs & 0xF) + cin >= 0x10, together with exactly
\* set_by_result(result).
C34_AdderFlags ==
    (retval.fn = "Adder::op" /\ retval.arg[1] \in {adder, carried_adder}) =>
        LET cin == IF retval.arg[1] = carried_adder THEN 1 ELSE 0
            flags == retval.val[2]
        IN  /\ ("Carry" \in flags) = (args.lhs + args.rhs + cin >= 256)
            /\ ("AuxiliaryCarry" \in flags)
                  = (BitAnd(args.lhs, 15) + BitAnd(args.rhs, 15) + cin >= 16)
            /\ flags \ {"Carry", "AuxiliaryCarry"}
                  = set_by_result((args.lhs + args.rhs + cin) % 256)

\* carried_adder().op(6, 9) of test alu: 16 with AuxiliaryCarry alone
C34_Witness ==
    /\ retval.fn = "Adder::op"
    /\ retval.arg = <<carried_adder, 6, 9>>
    /\ retval.val = <<16, {"AuxiliaryCarry"}>>

\* C35: for Adder with neg = true the returned Carry is the borrow of the
\* subtraction: Adder::subber().op(lhs, rhs) contains Carry iff lhs < rhs,
\* and Adder::borrowed_subber().op(lhs, rhs) contains Carry iff lhs <= rhs.
C35_SubberBorrow ==
    /\ (retval.fn = "Adder::op" /\ retval.arg[1] = subber) =>
          ("Carry" \in retval.val[2]) = (args.lhs < args.rhs)
    /\ (retval.fn = "Adder::op" /\ retval.arg[1] = borrowed_subber) =>
          ("Carry" \in retval.val[2]) = (args.lhs <= args.rhs)

\* borrowed_subber().op(9, 9): equal operands borrow, the result is 0xFF
C35_Witness ==
    /\ retval.fn = "Adder::op"
    /\ retval.arg = <<borrowed_subber, 9, 9>>
    /\ retval.val[1] = 255
    /\ "Carry" \in retval.val[2]

----------------------------------------------------------------------------
(* Further claims about single opcodes, settled under SpecExec             *)

\* C36: executing NOP (0x00), DI (0xF3) or EI (0xFB) has no effect on core
\* state beyond the fetch itself: PC advances by 1 and Inst latches the
\* opcode, while Acc, Flag, B, C, D, E, H, L, SP, every memory cell and
\* halted are unchanged.
C36_NopDiEi ==
    \A op \in {0, 243, 251} :
        Executed(op) =>
            /\ PC = (OldPC + 1) % 65536
            /\ code_reg_as_u8(Console, "Inst") = op
            /\ \A c \in Architectural : code_reg_as_u8(Console, c) = Old(c)
            /\ RamEq(ram, Last.pre.ram)
            /\ halted = Last.pre.halted

\* DI has been executed at 0x00F3 on a console with its registers loaded
C36_Witness ==
    /\ Executed(243)
    /\ OldPC = 243
    /\ Old("Acc") = 86
    /\ PC = 244
    /\ code_reg_as_u8(Console, "Inst") = 243
    /\ ~halted

----------------------------------------------------------------------------
(* SpecTwin: the same instructions executed on a console whose register    *)
(* map starts empty and on a twin whose sixteen registers start present    *)
(* with value 0; the twin is kept in args                                  *)

\* Instructions executed on each console
MaxTwinSteps == 3

\* A register map with every register present and 0
EagerRegs == [c \in I8080RegisterCode |-> 0]

\* The program: opcode k at address 0 followed by k+1, k+2, k+3 (operands
\* or the next opcodes), then zeroes
TwinImage(k) ==
    flash(RamDefault, <<k, (k + 1) % 256, (k + 2) % 256, (k + 3) % 256>>, 0)

InitTwin ==
    \E k \in Byte :
        /\ regs = <<>>
        /\ ram = TwinImage(k)
        /\ data_bus = 0
        /\ address_bus = 0
        /\ halted = FALSE
        /\ fault = "none"
        /\ image = "program"
        /\ runpc = "idle"
        /\ turns = 0
        /\ trail = <<>>
        /\ args = [ConsoleDefault EXCEPT !.regs = EagerRegs,
                                         !.ram = TwinImage(k)]
        /\ retval = NotCalled

\* execute() on both consoles, with the same byte on stdin
TwinExecute ==
    /\ fault = "none"
    /\ Len(trail) < MaxTwinSteps
    /\ \E stdin \in Stdin :
          /\ Becomes(execute(Console, stdin))
          /\ args' = execute(args, stdin)
    /\ trail' = Append(trail, [op |-> "execute", arg |-> "", pre |-> Console])
    /\ UNCHANGED <<image, runpc, turns, retval>>

NextTwin == TwinExecute

SpecTwin == InitTwin /\ [][NextTwin]_vars

\* C37: the lazily populated register map is observationally equivalent to
\* an eager one: a console whose register map starts empty and a console
\* whose sixteen 8-bit registers all start present with value 0 agree on
\* every register value (PC and SP among them), every memory cell and
\* halted, and on whether execute() returned, after any same sequence of
\* instructions.
C37_LazyEager ==
    /\ \A c \in I8080RegisterCode :
          code_reg_as_u8(Console, c) = code_reg_as_u8(args, c)
    /\ RamEq(ram, args.ram)
    /\ halted = args.halted
    /\ fault = args.fault

\* INX B, INR B, DCR B have run on both consoles: BC is 0x0001 on both, and
\* the lazy map still lacks registers the eager one holds
C37_Witness ==
    /\ Len(trail) = 3
    /\ Opcode(trail[1].pre) = 3
    /\ fault = "none"
    /\ code_reg16_as_u16(Console, "BC") = 1
    /\ code_reg16_as_u16(args, "BC") = 1
    /\ "D" \notin DOMAIN regs
    /\ "D" \in DOMAIN args.regs

----------------------------------------------------------------------------
(* SpecCodes: the register-pair mappings: split() through                  *)
(* code_reg16_read_to_address, pair(), and reg_address_load of cpu::i8080  *)

\* I8080RegisterCode::pair (the same arms in processor.rs and, under the
\* names A, F, .., in lib.rs); <<>> stands for the panic! arm
pair(code) ==
    CASE code \in {"Acc", "Flag"} -> <<"Acc", "Flag">>
      [] code \in {"B", "C"} -> <<"B", "C">>
      [] code \in {"D", "E"} -> <<"D", "C">>
      [] code \in {"W", "Z"} -> <<"W", "Z">>
      [] code \in {"H", "L"} -> <<"H", "L">>
      [] OTHER -> <<>>

\* cpu::i8080::I8080::reg_address_load, on the console record:
\* address_bus_reg.load(from_be_bytes(code.pair().map(entry(c).or_default().read())))
reg_address_load(s, code) ==
    IF ~Ok(s) THEN s
    ELSE IF pair(code) = <<>> THEN panic(s, "decode")
    ELSE LET s1 == code_reg_mut(code_reg_mut(s, pair(code)[1]), pair(code)[2])
         IN  [s1 EXCEPT !.address_bus =
                    from_be_bytes(code_reg_as_u8(s1, pair(code)[1]),
                                  code_reg_as_u8(s1, pair(code)[2]))]

\* The 8-bit codes that have a pair
PairedCodes == {"Acc", "Flag", "B", "C", "D", "E", "W", "Z", "H", "L"}

InitCodes ==
    \E pc \in InitPC, sp \in InitSP : Built(ExecRegs(pc, sp), RamRamp, "ramp")

\* No call has been made on this console yet
CodesCanCall == fault = "none" /\ trail = <<>> /\ retval = NotCalled

ReadPairToAddress ==
    /\ CodesCanCall
    /\ \E code \in I8080RegisterCode16 :
          Call("code_reg16_read_to_address", code,
               code_reg16_read_to_address(Console, code))

PairOf ==
    /\ CodesCanCall
    /\ \E code \in PairedCodes : Returns("pair", code, pair(code))

RegAddressLoad ==
    /\ CodesCanCall
    /\ \E code \in PairedCodes :
          Call("reg_address_load", code, reg_address_load(Console, code))

NextCodes == ReadPairToAddress \/ PairOf \/ RegAddressLoad

SpecCodes == InitCodes /\ [][NextCodes]_vars

\* The two cells of each pair as the claim names them, high cell first
PairCellsClaimed ==
    [PSW |-> <<"Acc", "Flag">>, BC |-> <<"B", "C">>, DE |-> <<"D", "E">>,
     HL |-> <<"H", "L">>, WZ |-> <<"W", "Z">>, SP |-> <<"SpH", "SpL">>,
     PC |-> <<"PcH", "PcL">>]

\* C38: every register pair reads big-endian from its own two cells: for
\* each pair code PSW, BC, DE, HL, WZ, SP, PC the word put on the address
\* bus is (high << 8) | low with DE built from D and E, and the 8-bit-code
\* mapping pair() returns [D, E] for both D and E (so that an address
\* loaded through pair() of D or E is (D << 8) | E too).
C38_PairsBigEndian ==
    /\ Did("code_reg16_read_to_address") =>
          address_bus = Old(PairCellsClaimed[Last.arg][1]) * 256
                          + Old(PairCellsClaimed[Last.arg][2])
    /\ (retval.fn = "pair" /\ retval.arg \in {"D", "E"}) =>
          retval.val = <<"D", "E">>
    /\ (Did("reg_address_load") /\ Last.arg \in {"D", "E"}) =>
          address_bus = Old("D") * 256 + Old("E")

----------------------------------------------------------------------------
(* SpecDad: execute() started on the four DAD opcodes of the ramp image,   *)
(* with sums that do and do not overflow                                   *)

DadHL == {0, 16640, 49408, 65535}

DadBC == {4660, 65535}

DadDE == {1, 39612}

DadSP == {8192, 61440}

\* -1 stands for a Flag not touched yet
DadFlags == {-1, 2, 87, 214}

\* The addresses of DAD B, DAD D, DAD H, DAD SP in the ramp image
DadPC == {9, 25, 41, 57}

InitDad ==
    \E pc \in DadPC, hl \in DadHL, bc \in DadBC, de \in DadDE, sp \in DadSP,
       f \in DadFlags :
        LET rs == WithPair(WithPair(WithPair(ExecRegs(pc, sp), "HL", hl),
                                    "BC", bc), "DE", de)
        IN  Built(IF f = -1 THEN RegRemove(rs, "Flag")
                  ELSE RegInsert(rs, "Flag", f), RamRamp, "ramp")

SpecDad == InitDad /\ [][NextExec]_vars

\* C39: for rp in 0..3 selecting BC, DE, HL, SP, opcode 00rp1001 (DAD) sets
\* HL to (HL + rp) mod 65536, sets the Carry bit of Flag iff
\* HL + rp >= 65536 and clears it otherwise, and leaves every other Flag
\* bit, Acc, the source pair (when not HL), SP and memory unchanged.
C39_Dad ==
    \A n \in 0..3 :
        Executed(n * 16 + 9) =>
            LET rp == reg16_code_from_bits(n)
                sum == code_reg16_as_u16(Last.pre, "HL")
                         + code_reg16_as_u16(Last.pre, rp)
                flag == code_reg_as_u8(Console, "Flag")
            IN  /\ code_reg16_as_u16(Console, "HL") = sum % 65536
                /\ Bit(flag, 0) = IF sum >= 65536 THEN 1 ELSE 0
                /\ \A i \in 1..7 : Bit(flag, i) = Bit(Old("Flag"), i)
                /\ \A c \in Architectural \ {"H", "L", "Flag"} :
                      code_reg_as_u8(Console, c) = Old(c)
                /\ RamEq(ram, Last.pre.ram)

\* DAD D with HL = 0xC100 and DE = 0x9ABC: HL = 0x5BBC and Carry, which was
\* clear, is set; the other Flag bits of 0xD6 are kept
C39_Witness ==
    /\ Executed(25)
    /\ code_reg16_as_u16(Last.pre, "HL") = 49408
    /\ code_reg16_as_u16(Last.pre, "DE") = 39612
    /\ Old("Flag") = 214
    /\ code_reg16_as_u16(Console, "HL") = 23484
    /\ code_reg_as_u8(Console, "Flag") = 215

----------------------------------------------------------------------------
(* The fixed bits of Flag along runs from a zeroed console (SpecTwin)       *)

\* The opcodes whose arm of execute() writes the Flag register: the ALU
\* instructions (register, memory and immediate forms, INR, DCR, the
\* rotates, DAA, CMA), STC, CMC, DAD and the pop_reg16(PSW) arm, which is
\* the (4, 1) arm, opcode 0xE1
WritesFlag(inst) ==
    LET op == inst \div 64
        dst == (inst \div 8) % 8
        src == inst % 8
    IN  \/ op = 2
        \/ op = 3 /\ src = 6
        \/ op = 0 /\ src \in {4, 5, 7}
        \/ op = 0 /\ src = 1 /\ dst % 2 = 1
        \/ inst = 225

\* Some instruction executed so far has written Flag
FlagWritten == \E i \in 1..Len(trail) : WritesFlag(Opcode(trail[i].pre))

\* C40: in every state reachable by executing instructions from a zeroed
\* console, once some instruction has written the Flag register (an ALU
\* instruction, STC, CMC, DAD or POP PSW), the Flag register has bit 1 set
\* and bits 3 and 5 clear.
C40_FlagFixedBitsReachable ==
    (fault = "none" /\ FlagWritten) =>
        FlagFixedBits(code_reg_as_u8(Console, "Flag"))

====
